---- MODULE Spec2Model ----
(***************************************************************************)
(* Query resolution of the real-estate search backend.                     *)
(*                                                                         *)
(* Text is modelled as a sequence of tokens.  A token is a single space    *)
(* " ", a punctuation character ("/", "?", "#", ":", ".", "-", "&", "=")   *)
(* or a maximal run of word characters ("baner", "2bhk", "50l").  Two      *)
(* word tokens are never adjacent, so every word token is delimited by     *)
(* regex word boundaries (\b) on both sides.                               *)
(***************************************************************************)
EXTENDS Integers, Sequences, FiniteSets, TLC

(***************************************************************************)
(* Absent values (Python None).                                            *)
(***************************************************************************)
NoneStr == <<"<None>">>
NoneInt == -1

(***************************************************************************)
(* Generic text helpers.                                                   *)
(***************************************************************************)
Punct == {"/", "?", "#", ":", ".", "-", "&", "=", "+", "%"}

IsSpace(t) == t = " "

IsWord(t) == t # " " /\ t \notin Punct

\* str.lower() on one token: the capitalised tokens of the model's vocabulary.
Lower(t) ==
    CASE t = "Baner" -> "baner"
      [] t = "DLF" -> "dlf"
      [] t = "Noida" -> "noida"
      [] t = "Pune" -> "pune"
      [] t = "Godrej" -> "godrej"
      [] t = "Woods" -> "woods"
      [] t = "Property" -> "property"
      [] t = "Rates" -> "rates"
      [] t = "BHK" -> "bhk"
      [] t = "Rent" -> "rent"
      [] t = "HTTPS" -> "https"
      [] t = "50L" -> "50l"
      [] OTHER -> t

LowerText(s) == [i \in 1..Len(s) |-> Lower(s[i])]

RECURSIVE LStrip(_)
LStrip(s) == IF s # <<>> /\ IsSpace(s[1]) THEN LStrip(Tail(s)) ELSE s

RECURSIVE RStrip(_)
RStrip(s) == IF s # <<>> /\ IsSpace(s[Len(s)]) THEN RStrip(SubSeq(s, 1, Len(s) - 1)) ELSE s

\* str.strip()
Strip(s) == RStrip(LStrip(s))

\* re.sub(t{2,}, t, s): collapse every run of the token t into one t
RECURSIVE CollapseRuns(_, _)
CollapseRuns(s, t) ==
    IF Len(s) <= 1 THEN s
    ELSE IF s[1] = t /\ s[2] = t THEN CollapseRuns(Tail(s), t)
    ELSE <<s[1]>> \o CollapseRuns(Tail(s), t)

\* index of the first token of s that belongs to the set ts, 0 if there is none
FirstIn(s, ts) ==
    IF \E i \in 1..Len(s) : s[i] \in ts
    THEN CHOOSE i \in 1..Len(s) : s[i] \in ts /\ \A j \in 1..(i - 1) : s[j] \notin ts
    ELSE 0

\* the part of s before the first token that belongs to ts (str.split(sep, 1)[0])
Before(s, ts) == IF FirstIn(s, ts) = 0 THEN s ELSE SubSeq(s, 1, FirstIn(s, ts) - 1)

Contains(s, t) == \E i \in 1..Len(s) : s[i] = t

(***************************************************************************)
(* main.normalize_q: strip, collapse whitespace, lower-case; None and ""   *)
(* both give "".                                                           *)
(***************************************************************************)
normalize_q(q) ==
    IF q = NoneStr \/ q = <<>> THEN <<>>
    ELSE LowerText(CollapseRuns(Strip(q), " "))

(***************************************************************************)
(* search/normalize.normalize_query: strip and collapse whitespace; the    *)
(* case of the letters is kept.                                            *)
(***************************************************************************)
normalize_query(q) ==
    IF q = NoneStr THEN <<>> ELSE CollapseRuns(Strip(q), " ")

(***************************************************************************)
(* main.clean_path_from_anything                                           *)
(***************************************************************************)
\* re.match(r"^https?://", raw, re.I)
IsFullUrl(raw) ==
    /\ Len(raw) >= 4
    /\ Lower(raw[1]) \in {"http", "https"}
    /\ raw[2] = ":" /\ raw[3] = "/" /\ raw[4] = "/"

\* urlparse(raw).path of a full URL: what follows the host, up to "?" or "#"
UrlPath(raw) ==
    LET rest == SubSeq(raw, 5, Len(raw))
        i == FirstIn(rest, {"/", "?", "#"})
    IN  IF i = 0 \/ rest[i] # "/" THEN <<>>
        ELSE Before(SubSeq(rest, i, Len(rest)), {"?", "#"})

clean_path_from_anything(q) ==
    LET raw == Strip(q)
        path0 == IF IsFullUrl(raw) THEN UrlPath(raw) ELSE raw
        path1 == Strip(Before(Before(path0, {"?"}), {"#"}))
        path2 == IF path1 # <<>> /\ path1[1] # "/" THEN <<"/">> \o path1 ELSE path1
        path3 == CollapseRuns(path2, "/")
        path4 == IF Len(path3) > 1 /\ path3[Len(path3)] = "/"
                 THEN SubSeq(path3, 1, Len(path3) - 1) ELSE path3
    IN  IF raw = <<>> THEN NoneStr
        ELSE IF path0 = <<>> THEN NoneStr
        ELSE IF path1 = <<>> THEN NoneStr
        ELSE path4

(***************************************************************************)
(* Token tables used by the regular expressions of parse_query.            *)
(***************************************************************************)
\* a word token that glues a number to a word ("2bhk", "50l"): its two parts
Compound(t) ==
    CASE t = "2bhk" -> <<"2", "bhk">>
      [] t = "3bhk" -> <<"3", "bhk">>
      [] t = "0bhk" -> <<"0", "bhk">>
      [] t = "12bhk" -> <<"12", "bhk">>
      [] t = "50l" -> <<"50", "l">>
      [] t = "1cr" -> <<"1", "cr">>
      [] t = "20k" -> <<"20", "k">>
      [] t = "30k" -> <<"30", "k">>
      [] OTHER -> <<t>>

\* int() of a token matched by [0-9]+
NumVal ==
    ("0" :> 0) @@ ("1" :> 1) @@ ("2" :> 2) @@ ("3" :> 3) @@ ("4" :> 4) @@ ("5" :> 5)
    @@ ("6" :> 6) @@ ("7" :> 7) @@ ("12" :> 12) @@ ("20" :> 20) @@ ("30" :> 30)
    @@ ("50" :> 50) @@ ("150" :> 150) @@ ("200" :> 200) @@ ("201" :> 201)
    @@ ("5000000" :> 5000000)

IsNum(t) == t \in DOMAIN NumVal

Units == {"cr", "crore", "l", "lac", "lakh", "k"}

\* position of the first non-space token of s at or after i (Len(s) + 1 if none)
SkipSp(s, i) ==
    IF \E j \in i..Len(s) : ~IsSpace(s[j])
    THEN CHOOSE j \in i..Len(s) : ~IsSpace(s[j]) /\ \A k \in i..(j - 1) : IsSpace(s[k])
    ELSE Len(s) + 1

\* token of s at position i, " " beyond the end
At(s, i) == IF i >= 1 /\ i <= Len(s) THEN s[i] ELSE " "

\* s has the word w1, whitespace (\s+), the word w2 starting at i: end position, else 0
TwoWords(s, i, w1, ws2) ==
    IF At(s, i) = w1 /\ IsSpace(At(s, i + 1)) /\ At(s, SkipSp(s, i + 1)) \in ws2
    THEN SkipSp(s, i + 1) ELSE 0

HasWord(s, ws) == \E i \in 1..Len(s) : s[i] \in ws

\* smallest element of a non-empty set of integers
Min(S) == CHOOSE x \in S : \A y \in S : x <= y

Max(S) == CHOOSE x \in S : \A y \in S : x >= y

(***************************************************************************)
(* main.money_to_rupees; the amount is given in tenths (num10 = 10 * num)  *)
(* so that one decimal digit is exact.                                     *)
(***************************************************************************)
\* the amounts x.y of the vocabulary (as 10 * x.y) whose binary floating-point
\* product with 100_000 lies just below the exact product, so that int() gives
\* one rupee less (2.3 * 100_000 = 229999.99999999997)
FloatShort == {23, 41, 46, 51, 204, 1502, 1507}

\* int(num * multiplier) with num10 = 10 * num
money_to_rupees(num10, unit) ==
    IF unit \in {"k"} THEN num10 * 100
    ELSE IF unit \in {"l", "lac", "lakh"}
    THEN num10 * 10000 - (IF num10 \in FloatShort THEN 1 ELSE 0)
    ELSE IF unit \in {"cr", "crore"} THEN num10 * 1000000
    ELSE num10 \div 10

(***************************************************************************)
(* The signals of main.parse_query, each from the normalized text s.       *)
(***************************************************************************)
RateWords == {"rate", "rates", "trend", "trends"}

OverviewWords == {"overview", "about", "guide"}

\* rate vocabulary first, then overview vocabulary
ParsePageIntent(s) ==
    IF HasWord(s, RateWords) THEN "rate_page"
    ELSE IF HasWord(s, OverviewWords) THEN "locality_overview"
    ELSE "None"

ParseIntent(s) ==
    IF HasWord(s, {"rent", "rental", "tenant"}) THEN "rent"
    ELSE IF HasWord(s, {"buy", "resale", "sale"}) THEN "buy"
    ELSE "None"

BhkDigits == {"1", "2", "3", "4", "5", "6"}

\* \b([1-6])\s*bhk\b matches at i: the digit token, else "" 
BhkAt(s, i) ==
    IF Len(Compound(s[i])) = 2 /\ Compound(s[i])[1] \in BhkDigits /\ Compound(s[i])[2] = "bhk"
    THEN Compound(s[i])[1]
    ELSE IF s[i] \in BhkDigits /\ IsSpace(At(s, i + 1)) /\ At(s, SkipSp(s, i + 1)) = "bhk"
    THEN s[i]
    ELSE ""

\* \b([1-6])bhk\b matches at i
BhkGluedAt(s, i) ==
    IF Len(Compound(s[i])) = 2 /\ Compound(s[i])[1] \in BhkDigits /\ Compound(s[i])[2] = "bhk"
    THEN Compound(s[i])[1]
    ELSE ""

ParseBhk(s) ==
    LET M1 == {i \in 1..Len(s) : BhkAt(s, i) # ""}
        M2 == {i \in 1..Len(s) : BhkGluedAt(s, i) # ""}
    IN  IF M1 # {} THEN NumVal[BhkAt(s, Min(M1))]
        ELSE IF M2 # {} THEN NumVal[BhkGluedAt(s, Min(M2))]
        ELSE NoneInt

ParseStatus(s) ==
    IF HasWord(s, {"rtm", "ready"}) THEN "ready"
    ELSE IF HasWord(s, {"uc"}) \/ \E i \in 1..Len(s) : TwoWords(s, i, "under", {"construction"}) # 0
    THEN "under_construction"
    ELSE "None"

\* type_map, in its order: the first entry with a matching word wins
ParsePropertyType(s) ==
    IF HasWord(s, {"floor"}) THEN "builder_floor"
    ELSE IF HasWord(s, {"apartment", "flat"}) THEN "apartment"
    ELSE IF HasWord(s, {"plot", "land"}) THEN "plot"
    ELSE IF HasWord(s, {"villa"}) THEN "villa"
    ELSE IF HasWord(s, {"house"}) THEN "independent_house"
    ELSE IF HasWord(s, {"office"}) THEN "office"
    ELSE IF HasWord(s, {"shop", "retail"}) THEN "shop"
    ELSE "None"

(***************************************************************************)
(* Builder hint and locality hint: a lazy character-class group that ends  *)
(* at the first admissible terminator.                                     *)
(***************************************************************************)
\* [a-z0-9&.\- ]
BuilderClass(t) == IsWord(t) \/ t \in {" ", "&", ".", "-"}

\* [a-z0-9 \-]
LocClass(t) == IsWord(t) \/ t \in {" ", "-"}

InClass(cls, t) == IF cls = "builder" THEN BuilderClass(t) ELSE LocClass(t)

ListingWords == {"project", "projects", "propertie", "properties", "listing", "listings", "home", "homes"}

PlaceWords == {"in", "near", "at"}

LocStopWords == {"under", "below", "between", "for", "with", "near", "rate", "rates", "overview"}

\* end of the group (...+?) that starts at g and is followed by \s+<stop word> or by $; 0 if none
LazyEnd(s, g, cls, stops) ==
    LET Ends == {j \in g..Len(s) :
                    /\ \A k \in g..j : InClass(cls, s[k])
                    /\ \/ j = Len(s)
                       \/ IsSpace(At(s, j + 1)) /\ j + 2 <= Len(s) /\ s[j + 2] \in stops}
    IN  IF g > Len(s) \/ Ends = {} THEN 0 ELSE Min(Ends)

\* ^([a-z0-9&.\- ]+?)\s+(?:projects?|properties?|listings?|homes?)\b
BuilderPrefix(s) ==
    LET K == {k \in 3..Len(s) :
                 /\ s[k] \in ListingWords
                 /\ IsSpace(s[k - 1])
                 /\ \A j \in 1..(k - 2) : BuilderClass(s[j])}
    IN  IF K = {} THEN <<>> ELSE Strip(SubSeq(s, 1, Min(K) - 2))

\* \b(?:projects?|...)\s+(?:by|from)\s+([a-z0-9&.\- ]+?)(?:\s+\b(in|near|at)\b|$)
BuilderBy(s) ==
    LET I == {i \in 1..Len(s) :
                 /\ s[i] \in ListingWords
                 /\ IsSpace(At(s, i + 1))
                 /\ At(s, i + 2) \in {"by", "from"}
                 /\ IsSpace(At(s, i + 3))
                 /\ LazyEnd(s, i + 4, "builder", PlaceWords) # 0}
    IN  IF I = {} THEN <<>>
        ELSE Strip(SubSeq(s, Min(I) + 4, LazyEnd(s, Min(I) + 4, "builder", PlaceWords)))

\* \bbuilder\s+([a-z0-9&.\- ]+?)(?:\s+\b(in|near|at)\b|$)
BuilderWord(s) ==
    LET I == {i \in 1..Len(s) :
                 /\ s[i] = "builder"
                 /\ IsSpace(At(s, i + 1))
                 /\ LazyEnd(s, i + 2, "builder", PlaceWords) # 0}
    IN  IF I = {} THEN <<>>
        ELSE Strip(SubSeq(s, Min(I) + 2, LazyEnd(s, Min(I) + 2, "builder", PlaceWords)))

\* the three builder patterns, tried in order while the hint is still empty
ParseBuilderHint(s) ==
    IF BuilderPrefix(s) # <<>> THEN BuilderPrefix(s)
    ELSE IF BuilderBy(s) # <<>> THEN BuilderBy(s)
    ELSE IF BuilderWord(s) # <<>> THEN BuilderWord(s)
    ELSE NoneStr

\* \b(?:in|near|at)\s+([a-z0-9 \-]+?)(?:\s+\bunder\b|...|\s+\boverview\b|$)
ParseLocalityHint(s) ==
    LET I == {i \in 1..Len(s) :
                 /\ s[i] \in PlaceWords
                 /\ IsSpace(At(s, i + 1))
                 /\ LazyEnd(s, i + 2, "loc", LocStopWords) # 0}
    IN  IF I = {} THEN NoneStr
        ELSE Strip(SubSeq(s, Min(I) + 2, LazyEnd(s, Min(I) + 2, "loc", LocStopWords)))

(***************************************************************************)
(* Budgets.                                                                *)
(***************************************************************************)
\* ([0-9]+(?:\.[0-9]+)?)\s*(cr|crore|l|lac|lakh|k)? at position p of s
AmountFields(s, p, t, c, dec, glued, numEnd, u, spaced) ==
    [ok    |-> IsNum(t) \/ (glued /\ c[2] \in Units),
     num10 |-> IF dec THEN 10 * NumVal[t] + NumVal[s[p + 2]]
               ELSE IF glued THEN 10 * NumVal[c[1]]
               ELSE IF IsNum(t) THEN 10 * NumVal[t] ELSE 0,
     unit  |-> IF glued THEN c[2] ELSE IF spaced THEN u ELSE "",
     end   |-> IF spaced THEN SkipSp(s, numEnd + 1) ELSE numEnd]

AmountUnit(s, p, t, c, dec, glued, numEnd, u) ==
    AmountFields(s, p, t, c, dec, glued, numEnd, u, ~glued /\ IsSpace(At(s, numEnd + 1)) /\ u \in Units)

AmountNum(s, p, t, c, dec, glued, numEnd) ==
    AmountUnit(s, p, t, c, dec, glued, numEnd, At(s, SkipSp(s, numEnd + 1)))

AmountParts(s, p, t, c, dec) ==
    AmountNum(s, p, t, c, dec, Len(c) = 2 /\ IsNum(c[1]), IF dec THEN p + 2 ELSE p)

AmountToken(s, p, t) ==
    AmountParts(s, p, t, Compound(t),
                IsNum(t) /\ At(s, p + 1) = "." /\ At(s, p + 2) \in BhkDigits \cup {"0", "7"})

AmountAt(s, p) == AmountToken(s, p, At(s, p))

\* ...(?:and|to)\s+B\s*(unit)?\b with the connective at c, after the first amount a1
BetweenSecond(s, a1, c, a2) ==
    IF /\ At(s, c) \in {"and", "to"} /\ c <= Len(s)
       /\ IsSpace(At(s, c + 1)) /\ c + 2 <= Len(s)
       /\ a2.ok
    THEN <<a1, a2>> ELSE <<>>

\* \bbetween\s+A\s*(unit)?\s*... with the first amount a1 and the connective at c
BetweenFirst(s, i, a1, c) ==
    IF At(s, i) = "between" /\ IsSpace(At(s, i + 1)) /\ a1.ok
    THEN BetweenSecond(s, a1, c, AmountAt(s, c + 2)) ELSE <<>>

BetweenFrom(s, i, a1) == BetweenFirst(s, i, a1, SkipSp(s, a1.end + 1))

\* \bbetween\s+A\s*(unit)?\s*(?:and|to)\s+B\s*(unit)?\b at position i: <<A, B>> or <<>>
BetweenAt(s, i) == BetweenFrom(s, i, AmountAt(s, i + 2))

\* end of the keyword that starts at i (a single word, or two words that
\* optional whitespace separates), 0 if none does
KeywordEnd(s, i, singles, pairs) ==
    IF At(s, i) \in singles THEN i
    ELSE IF \E p \in pairs : TwoWords(s, i, p[1], {p[2]}) # 0
    THEN SkipSp(s, i + 1)
    ELSE 0

UnderSingles == {"under", "below", "upto", "max", "lessthan"}

UnderPairs == {<<"up", "to">>, <<"less", "than">>}

AboveSingles == {"above", "over", "min", "morethan"}

AbovePairs == {<<"more", "than">>}

\* \b(keyword)\s+X\s*(unit)\b at position i, the unit being mandatory: <<X>> or <<>>
BoundAmount(s, e, a) ==
    IF e # 0 /\ IsSpace(At(s, e + 1)) /\ e + 2 <= Len(s) /\ a.ok /\ a.unit # ""
    THEN <<a>> ELSE <<>>

BoundFrom(s, e) == BoundAmount(s, e, AmountAt(s, e + 2))

BoundAt(s, i, singles, pairs) == BoundFrom(s, KeywordEnd(s, i, singles, pairs))

\* _apply_budget: the pair goes to rent in rent context, to price otherwise;
\* an absent side keeps the bound already there
apply_budget(b, rent_context, min_v, max_v) ==
    IF rent_context
    THEN [b EXCEPT !.min_rent = IF min_v # NoneInt THEN min_v ELSE @,
                   !.max_rent = IF max_v # NoneInt THEN max_v ELSE @]
    ELSE [b EXCEPT !.min_price = IF min_v # NoneInt THEN min_v ELSE @,
                   !.max_price = IF max_v # NoneInt THEN max_v ELSE @]

NoBudget == [min_price |-> NoneInt, max_price |-> NoneInt, min_rent |-> NoneInt, max_rent |-> NoneInt]

\* line 326: rent or rental, "per month" or "pm", or the rent intent
RentContext_NoPerMonth(s, intent) ==
    \/ HasWord(s, {"rent", "rental"})
    \/ intent = "rent"

RentContext(s, intent) ==
    \/ HasWord(s, {"rent", "rental", "pm", "permonth"})
    \/ \E i \in 1..Len(s) : TwoWords(s, i, "per", {"month"}) # 0
    \/ intent = "rent"

\* lines 343-347: a missing first unit is "l", a missing second unit is the first
BetweenUnits(rc, m, u1) ==
    apply_budget(NoBudget, rc, money_to_rupees(m[1].num10, u1),
                 money_to_rupees(m[2].num10, IF m[2].unit # "" THEN m[2].unit ELSE u1))

BetweenApply(rc, m) == BetweenUnits(rc, m, IF m[1].unit # "" THEN m[1].unit ELSE "l")

\* the leftmost position where a pattern matches, 0 if there is none
FirstMatch(I) == IF I = {} THEN 0 ELSE Min(I)

BetweenFound(s, rc, i) == IF i = 0 THEN NoBudget ELSE BetweenApply(rc, BetweenAt(s, i))

\* between X and Y
BetweenBudget(s, rc) ==
    BetweenFound(s, rc, FirstMatch({i \in 1..Len(s) : BetweenAt(s, i) # <<>>}))

UnderApply(rc, b1, a) == apply_budget(b1, rc, NoneInt, money_to_rupees(a.num10, a.unit))

UnderFound(s, rc, b1, i) ==
    IF i # 0 /\ b1.max_price = NoneInt /\ b1.max_rent = NoneInt
    THEN UnderApply(rc, b1, BoundAt(s, i, UnderSingles, UnderPairs)[1])
    ELSE b1

\* under / below / upto X, applied only while no maximum is set
UnderBudget(s, rc, b1) ==
    UnderFound(s, rc, b1, FirstMatch({i \in 1..Len(s) : BoundAt(s, i, UnderSingles, UnderPairs) # <<>>}))

AboveApply(rc, b2, a) == apply_budget(b2, rc, money_to_rupees(a.num10, a.unit), NoneInt)

AboveFound(s, rc, b2, i) ==
    IF i # 0 /\ b2.min_price = NoneInt /\ b2.min_rent = NoneInt
    THEN AboveApply(rc, b2, BoundAt(s, i, AboveSingles, AbovePairs)[1])
    ELSE b2

\* above / over / more than X, applied only while no minimum is set
AboveBudget(s, rc, b2) ==
    AboveFound(s, rc, b2, FirstMatch({i \in 1..Len(s) : BoundAt(s, i, AboveSingles, AbovePairs) # <<>>}))

\* the three budget patterns in the order between, under, above
BudgetsIn(s, rc) == AboveBudget(s, rc, UnderBudget(s, rc, BetweenBudget(s, rc)))

ParseBudgets(s, intent) == BudgetsIn(s, RentContext(s, intent))

(***************************************************************************)
(* Location residual: re.sub(pattern, " ", loc), one pattern after the     *)
(* other.  MatchEnd gives the position where the match of a pattern that   *)
(* starts at i ends, 0 if the pattern does not match at i.                 *)
(***************************************************************************)
RECURSIVE CharLen(_, _, _)
\* number of characters of the tokens a..b of s
CharLen(s, a, b) == IF a > b THEN 0 ELSE Len(s[a]) + CharLen(s, a + 1, b)

\* greedy [\s\S]{0,n}\b(unit)\b after position e: the last stand-alone unit within n characters
UnitWithin(s, e, n) ==
    LET J == {j \in (e + 1)..Len(s) : s[j] \in Units /\ CharLen(s, e + 1, j - 1) <= n}
    IN  IF J = {} THEN 0 ELSE Max(J)

BudgetWindowBetween == 40
BudgetWindowBound == 20

\* the first alternative that matches: a if it does (a # 0), else b
OrElse(a, b) == IF a # 0 THEN a ELSE b

\* position i if the token there is one of ws, else 0
WordAt(s, i, ws) == IF s[i] \in ws THEN i ELSE 0

\* ready\s*to\s*move at i, given where "ready to" ends
ReadyToMove(s, e) == IF e # 0 THEN TwoWords(s, e, "to", {"move"}) ELSE 0

\* after the keyword ending at e: the unit that closes the budget phrase
BoundWindow(s, e) == IF e # 0 THEN UnitWithin(s, e, BudgetWindowBound) ELSE 0

MatchEnd(pat, s, i) ==
    CASE pat = "rate" ->
            OrElse(TwoWords(s, i, "property", {"rate", "rates"}),
            OrElse(WordAt(s, i, {"rate", "rates"}),
            OrElse(TwoWords(s, i, "price", {"trend", "trends"}),
                   WordAt(s, i, {"trend", "trends"}))))
      [] pat = "overview" ->
            OrElse(TwoWords(s, i, "locality", {"overview"}), WordAt(s, i, OverviewWords))
      [] pat = "bhk" ->
            IF BhkGluedAt(s, i) # "" THEN i
            ELSE IF BhkAt(s, i) # "" THEN SkipSp(s, i + 1)
            ELSE 0
      [] pat = "intent" ->
            WordAt(s, i, {"buy", "resale", "sale", "rent", "rental", "tenant"})
      [] pat = "status" ->
            OrElse(ReadyToMove(s, TwoWords(s, i, "ready", {"to"})),
            OrElse(WordAt(s, i, {"rtm", "ready", "uc"}),
                   TwoWords(s, i, "under", {"construction"})))
      [] pat = "type" ->
            OrElse(TwoWords(s, i, "builder", {"floor"}),
            OrElse(WordAt(s, i, {"floor", "apartment", "flat", "plot", "land", "villa", "house",
                                 "office", "shop", "retail"}),
                   TwoWords(s, i, "independent", {"house"})))
      [] pat = "listing" ->
            WordAt(s, i, ListingWords \cup {"developer", "developers", "builder", "builders", "by", "from"})
      [] pat = "between" ->
            IF s[i] = "between" THEN UnitWithin(s, i, BudgetWindowBetween) ELSE 0
      [] pat = "bound" ->
            BoundWindow(s, KeywordEnd(s, i, UnderSingles \cup AboveSingles, UnderPairs \cup AbovePairs))
      [] pat = "stop" ->
            WordAt(s, i, {"in", "near", "at", "for", "with", "without", "and", "to"})
      [] OTHER -> 0

RECURSIVE ReSubFrom(_, _, _)
\* one step of re.sub at position i, e being where the match that starts at i ends (0: no match)
ReSubStep(pat, s, i, e) ==
    IF e # 0 THEN <<" ">> \o ReSubFrom(pat, s, e + 1)
    ELSE <<s[i]>> \o ReSubFrom(pat, s, i + 1)

ReSubFrom(pat, s, i) ==
    IF i > Len(s) THEN <<>> ELSE ReSubStep(pat, s, i, MatchEnd(pat, s, i))

\* re.sub(pattern, " ", s)
ReSub(pat, s) == ReSubFrom(pat, s, 1)

\* \b between the tokens i - 1 and i of s
Boundary(s, i) == IsWord(At(s, i - 1)) # IsWord(At(s, i))

\* re.sub(r"\b" + re.escape(h) + r"\b", " ", s)
RECURSIVE ReSubPhraseFrom(_, _, _)
ReSubPhraseFrom(h, s, i) ==
    IF i > Len(s) THEN <<>>
    ELSE IF /\ i + Len(h) - 1 <= Len(s)
            /\ SubSeq(s, i, i + Len(h) - 1) = h
            /\ Boundary(s, i) /\ Boundary(s, i + Len(h))
         THEN <<" ">> \o ReSubPhraseFrom(h, s, i + Len(h))
         ELSE <<s[i]>> \o ReSubPhraseFrom(h, s, i + 1)

LocationResidual(s, builder_hint) ==
    LET l1 == ReSub("rate", s)
        l2 == ReSub("overview", l1)
        l3 == ReSub("bhk", l2)
        l4 == ReSub("intent", l3)
        l5 == ReSub("status", l4)
        l6 == ReSub("type", l5)
        l7 == ReSub("listing", l6)
        l8 == IF builder_hint # NoneStr /\ builder_hint # <<>>
              THEN ReSubPhraseFrom(builder_hint, l7, 1) ELSE l7
        l9 == ReSub("between", l8)
        l10 == ReSub("bound", l9)
        l11 == ReSub("stop", l10)
    IN  Strip(CollapseRuns(l11, " "))

(***************************************************************************)
(* main.parse_query                                                        *)
(***************************************************************************)
\* lines 372-373 and 402-423: the listing decision, location_query and the response
ParseResult_BuilderListing(s, pi, intent, bhk, status, ptype, builder_hint, locality_hint, b, loc) ==
    [q |-> s,
     intent |-> intent,
     bhk |-> bhk,
     locality_hint |-> locality_hint,
     page_intent |-> IF /\ pi = "None"
                        /\ \/ bhk # NoneInt \/ status # "None" \/ ptype # "None"
                           \/ b.min_price # NoneInt \/ b.max_price # NoneInt
                           \/ b.min_rent # NoneInt \/ b.max_rent # NoneInt
                           \/ intent # "None"
                           \/ (builder_hint # NoneStr /\ builder_hint # <<>>)
                     THEN "listing" ELSE pi,
     location_query |-> IF locality_hint # NoneStr /\ locality_hint # <<>> THEN locality_hint
                        ELSE IF loc # <<>> THEN loc ELSE NoneStr,
     property_type |-> ptype,
     status |-> status,
     min_price |-> b.min_price,
     max_price |-> b.max_price,
     min_rent |-> b.min_rent,
     max_rent |-> b.max_rent,
     builder_hint |-> builder_hint]

ParseResult(s, pi, intent, bhk, status, ptype, builder_hint, locality_hint, b, loc) ==
    LET listing == /\ pi = "None"
                   /\ \/ bhk # NoneInt \/ status # "None" \/ ptype # "None"
                      \/ b.min_price # NoneInt \/ b.max_price # NoneInt
                      \/ b.min_rent # NoneInt \/ b.max_rent # NoneInt
                      \/ intent # "None"
    IN  [q |-> s,
         intent |-> intent,
         bhk |-> bhk,
         locality_hint |-> locality_hint,
         page_intent |-> IF listing THEN "listing" ELSE pi,
         location_query |-> IF locality_hint # NoneStr /\ locality_hint # <<>> THEN locality_hint
                            ELSE IF loc # <<>> THEN loc ELSE NoneStr,
         property_type |-> ptype,
         status |-> status,
         min_price |-> b.min_price,
         max_price |-> b.max_price,
         min_rent |-> b.min_rent,
         max_rent |-> b.max_rent,
         builder_hint |-> builder_hint]

\* parse_query on the normalized text
ParseNormalized(s) ==
    ParseResult(s, ParsePageIntent(s), ParseIntent(s), ParseBhk(s), ParseStatus(s), ParsePropertyType(s),
                ParseBuilderHint(s), ParseLocalityHint(s), ParseBudgets(s, ParseIntent(s)),
                LocationResidual(s, ParseBuilderHint(s)))

parse_query(q) == ParseNormalized(normalize_q(q))

(***************************************************************************)
(* main.is_constraint_heavy: parses the query again and looks at eight     *)
(* fields and at page_intent.                                              *)
(***************************************************************************)
\* any of the eight constraint fields set, or page_intent listing
HasConstraintField(parsed) ==
    \/ parsed.intent # "None"
    \/ parsed.bhk # NoneInt
    \/ parsed.property_type # "None"
    \/ parsed.status # "None"
    \/ parsed.min_price # NoneInt
    \/ parsed.max_price # NoneInt
    \/ parsed.min_rent # NoneInt
    \/ parsed.max_rent # NoneInt
    \/ parsed.page_intent = "listing"

is_constraint_heavy(q) == HasConstraintField(parse_query(q))

(***************************************************************************)
(* URL builders.                                                           *)
(***************************************************************************)
\* urllib.parse.quote_plus on one token
QuoteTok(t) ==
    CASE t = " " -> "+"
      [] t = "/" -> "%2F"
      [] t = "?" -> "%3F"
      [] t = "#" -> "%23"
      [] t = ":" -> "%3A"
      [] t = "&" -> "%26"
      [] t = "=" -> "%3D"
      [] t = "+" -> "%2B"
      [] t = "%" -> "%25"
      [] OTHER -> t

quote_plus(s) == [i \in 1..Len(s) |-> QuoteTok(s[i])]

\* a Python string is truthy when it is neither None nor empty
Truthy(s) == s # NoneStr /\ s # <<>>

SerpPrefix == <<"/", "search", "?", "q", "=">>

\* main.build_serp_url
build_serp_url(q, city_id, qid, context_url) ==
    SerpPrefix \o quote_plus(q)
    \o (IF Truthy(city_id) THEN <<"&", "city_id", "=">> \o quote_plus(city_id) ELSE <<>>)
    \o (IF Truthy(qid) THEN <<"&", "qid", "=">> \o quote_plus(qid) ELSE <<>>)
    \o (IF Truthy(context_url) THEN <<"&", "context_url", "=">> \o quote_plus(context_url) ELSE <<>>)

\* api/search._build_serp_url
api_build_serp_url(q, city_id) ==
    SerpPrefix \o quote_plus(q)
    \o (IF Truthy(city_id) THEN <<"&", "city_id", "=">> \o quote_plus(city_id) ELSE <<>>)

RECURSIVE RStripSlash(_)
\* str.rstrip("/")
RStripSlash(s) == IF s # <<>> /\ s[Len(s)] = "/" THEN RStripSlash(SubSeq(s, 1, Len(s) - 1)) ELSE s

LocationTypes == {"city", "micromarket", "locality", "listing_page", "locality_overview"}

RECURSIVE JoinParams(_)
\* urllib.parse.urlencode of a list of <<key, value>> pairs, in the order given
JoinParams(ps) ==
    IF ps = <<>> THEN <<>>
    ELSE <<ps[1][1], "=">> \o quote_plus(ps[1][2])
         \o (IF Len(ps) > 1 THEN <<"&">> \o JoinParams(Tail(ps)) ELSE <<>>)

\* the params dict of build_listing_url, in insertion order
ListingParams(parsed) ==
    (IF parsed.bhk # NoneInt THEN << <<"bhk", <<ToString(parsed.bhk)>> >> >> ELSE <<>>)
    \o (IF parsed.min_price # NoneInt THEN << <<"min_price", <<ToString(parsed.min_price)>> >> >> ELSE <<>>)
    \o (IF parsed.max_price # NoneInt THEN << <<"max_price", <<ToString(parsed.max_price)>> >> >> ELSE <<>>)
    \o (IF parsed.min_rent # NoneInt THEN << <<"min_rent", <<ToString(parsed.min_rent)>> >> >> ELSE <<>>)
    \o (IF parsed.max_rent # NoneInt THEN << <<"max_rent", <<ToString(parsed.max_rent)>> >> >> ELSE <<>>)
    \o (IF parsed.status # "None" THEN << <<"status", <<parsed.status>> >> >> ELSE <<>>)
    \o (IF parsed.property_type # "None" THEN << <<"property_type", <<parsed.property_type>> >> >> ELSE <<>>)

\* Segment with the rent branch lost
Segment_AlwaysBuy(parsed) == "buy"

\* the path segment build_listing_url derives from the parsed intent
Segment(parsed) == IF parsed.intent = "rent" THEN "rent" ELSE "buy"

\* main.build_listing_url
build_listing_url(entity, parsed) ==
    LET stripped == RStripSlash(entity.canonical_url)
        base == IF stripped = <<>> THEN <<"/">> ELSE stripped
        segment == Segment(parsed)
        base_with_intent ==
            IF entity.entity_type \in LocationTypes
            THEN IF base # <<"/">> THEN base \o <<"/", segment>> ELSE <<"/", segment>>
            ELSE base
        qs == JoinParams(ListingParams(parsed))
    IN  base_with_intent \o (IF qs # <<>> THEN <<"?">> \o qs ELSE <<>>)

(***************************************************************************)
(* The entity index (an external search service).  A request sees it only  *)
(* through its responses: ranked hits, each a document with a score.       *)
(***************************************************************************)
MaxHits == 2

Doc(id, entity_type, name, city_id, canonical_url) ==
    [id |-> id, entity_type |-> entity_type, name |-> name, city_id |-> city_id,
     canonical_url |-> canonical_url]

Docs ==
    { Doc("builder_dlf", "builder", <<"DLF">>, <<>>, <<"/", "builders", "/", "dlf">>),
      Doc("city_noida", "city", <<"Noida">>, <<"city_noida">>, <<"/", "noida">>),
      Doc("loc_baner_pune", "locality", <<"Baner">>, <<"city_pune">>, <<"/", "pune", "/", "baner">>),
      Doc("loc_baner_noida", "locality", <<"Baner">>, <<"city_noida">>, <<"/", "noida", "/", "baner">>),
      Doc("mm_baner_noida", "micromarket", <<"Baner">>, <<"city_noida">>, <<"/", "noida", "/", "mm", "/", "baner">>),
      Doc("rate_baner_pune", "rate_page", <<"Baner", " ", "Property", " ", "Rates">>, <<"city_pune">>,
          <<"/", "property", "-", "rates", "/", "pune", "/", "baner">>),
      Doc("rate_baner_noida", "rate_page", <<"Baner">>, <<"city_noida">>,
          <<"/", "property", "-", "rates", "/", "noida", "/", "baner">>) }

\* relevance scores a hit may carry
Scores == {4, 5, 6}

Hits == [source : Docs, score : Scores]

\* ranked hit lists: distinct documents, best score first
HitsOfLen(n) ==
    {h \in [1..n -> Hits] :
        /\ \A i, j \in 1..n : i # j => h[i].source # h[j].source
        /\ \A i \in 1..(n - 1) : h[i].score >= h[i + 1].score}

AllHitLists == UNION {HitsOfLen(n) : n \in 0..MaxHits}

Failed == [ok |-> FALSE, hits |-> <<>>]

Answer(h) == [ok |-> TRUE, hits |-> h]

\* responses to a ranked search with "size": limit and an optional entity_type terms filter
SearchResponses(entity_types, limit) ==
    {Failed} \cup
    {Answer(h) : h \in {x \in AllHitLists :
                            /\ Len(x) <= limit
                            /\ entity_types # {} => \A i \in 1..Len(x) : x[i].source.entity_type \in entity_types}}

\* responses to the term query on canonical_url with "size": 1
LookupResponses(path) ==
    {Failed, Answer(<<>>)} \cup {Answer(<<h>>) : h \in {x \in Hits : x.source.canonical_url = path}}

\* main.hit_to_entity
hit_to_entity(hit) ==
    [id |-> hit.source.id, entity_type |-> hit.source.entity_type, name |-> hit.source.name,
     city_id |-> hit.source.city_id, canonical_url |-> hit.source.canonical_url, score |-> hit.score]

\* resolve_service._make_candidate
make_candidate(hit) ==
    [id |-> hit.source.id, entity_type |-> hit.source.entity_type, name |-> hit.source.name,
     city_id |-> hit.source.city_id, canonical_url |-> hit.source.canonical_url, score |-> hit.score]

Entities(hits) == [i \in 1..Len(hits) |-> hit_to_entity(hits[i])]

NoEnt == [id |-> "None", entity_type |-> "None", name |-> <<>>, city_id |-> <<>>,
          canonical_url |-> <<>>, score |-> 0]

\* s[:n]
Prefix(s, n) == SubSeq(s, 1, IF n < Len(s) THEN n ELSE Len(s))

\* the non-empty city ids of a list of entities
CitiesOf(es) == {es[i].city_id : i \in {j \in 1..Len(es) : es[j].city_id # <<>>}}

(***************************************************************************)
(* Decisions (ResolveResponse).  An index failure that leaves the handler  *)
(* as an exception is the outcome "error".                                 *)
(***************************************************************************)
Decision(action, query, normalized_query, url, match, candidates, reason) ==
    [action |-> action, query |-> query, normalized_query |-> normalized_query, url |-> url,
     match |-> match, candidates |-> candidates, reason |-> reason]

NoDecision == Decision("None", <<>>, <<>>, NoneStr, NoEnt, <<>>, "None")

ErrorOutcome(q) == Decision("error", q, <<>>, NoneStr, NoEnt, <<>>, "index_error")

(***************************************************************************)
(* main.resolve, rule by rule.  Each operator is what the handler does     *)
(* with the hits of one index search; NoDecision means it falls through.   *)
(***************************************************************************)
MIN_REDIRECT_SCORE == 5
\* MIN_REDIRECT_GAP, in hundredths
MIN_REDIRECT_GAP == 30

SameName(es, key) == SelectSeq(es, LAMBDA e : normalize_q(e.name) = key)

InCity(es, city_id) == SelectSeq(es, LAMBDA e : e.city_id = city_id)

OfTypes(es, types) == SelectSeq(es, LAMBDA e : e.entity_type \in types)

\* parsed.locality_hint or parsed.location_query
LocationQ(parsed) ==
    IF Truthy(parsed.locality_hint) THEN parsed.locality_hint ELSE parsed.location_query

\* the clean-path shortcut applies: clean_path and ("/" in clean_path)
PathShaped(clean_path) == clean_path # NoneStr /\ Contains(clean_path, "/")

CleanPathApplies(q) == PathShaped(clean_path_from_anything(q))

RegistryDecision(q, registry) ==
    Decision("redirect", q, q, registry[clean_path_from_anything(q)], NoEnt, <<>>, "redirect_registry")

CleanUrlDecision(q, hit) ==
    Decision("redirect", q, q, hit_to_entity(hit).canonical_url, hit_to_entity(hit), <<>>, "clean_url")

\* PageIntentOutcome without the in-city preference of lines 1027-1040
PageIntentOutcome_NoCityPreference(q, parsed, city_id, hits) ==
    LET ents == Entities(hits)
        name_key == normalize_q(parsed.location_query)
        exact == SameName(ents, name_key)
        candidates == IF exact # <<>> THEN exact ELSE ents
        cities == CitiesOf(candidates)
    IN  IF Len(candidates) > 1 /\ Cardinality(cities) > 1 /\ ~Truthy(city_id)
        THEN Decision("disambiguate", q, parsed.q, NoneStr, NoEnt, Prefix(candidates, 8),
                      "page_intent_same_name")
        ELSE IF candidates # <<>>
        THEN Decision("redirect", q, parsed.q, candidates[1].canonical_url, candidates[1], <<>>,
                      "page_intent_confident_redirect")
        ELSE NoDecision

\* page-intent routing, lines 1020-1066
PageIntentOutcome(q, parsed, city_id, hits) ==
    LET ents == Entities(hits)
        name_key == normalize_q(parsed.location_query)
        exact == SameName(ents, name_key)
        candidates == IF exact # <<>> THEN exact ELSE ents
        in_city == InCity(candidates, city_id)
        cities == CitiesOf(candidates)
    IN  IF Truthy(city_id) /\ in_city # <<>>
        THEN Decision("redirect", q, parsed.q, in_city[1].canonical_url, in_city[1], <<>>,
                      "page_intent_city_scoped")
        ELSE IF Len(candidates) > 1 /\ Cardinality(cities) > 1 /\ ~Truthy(city_id)
        THEN Decision("disambiguate", q, parsed.q, NoneStr, NoEnt, Prefix(candidates, 8),
                      "page_intent_same_name")
        ELSE IF candidates # <<>>
        THEN Decision("redirect", q, parsed.q, candidates[1].canonical_url, candidates[1], <<>>,
                      "page_intent_confident_redirect")
        ELSE NoDecision

\* the builder entity, lines 1076-1080: exact name first, NoEnt without hits
BuilderPick(parsed, bhits) ==
    LET builders == Entities(bhits)
        exact_builders == SameName(builders, normalize_q(parsed.builder_hint))
    IN  IF builders = <<>> THEN NoEnt
        ELSE IF exact_builders # <<>> THEN exact_builders[1] ELSE builders[1]

\* the base location, lines 1087-1100
BuilderBase(parsed, city_id, lhits) ==
    LET locs == OfTypes(Entities(lhits), LocationTypes)
        exact_locs == SameName(locs, normalize_q(LocationQ(parsed)))
        candidates == IF exact_locs # <<>> THEN exact_locs ELSE locs
        in_city == InCity(candidates, city_id)
    IN  IF locs = <<>> THEN NoEnt
        ELSE IF Truthy(city_id) /\ in_city # <<>> THEN in_city[1]
        ELSE candidates[1]

\* BuilderCity taking the best city hit without comparing its id with city_id
BuilderCity_AnyCity(city_id, chits) ==
    IF chits # <<>> THEN Entities(chits)[1] ELSE NoEnt

\* the city fallback, lines 1104-1108
BuilderCity(city_id, chits) ==
    LET exact_city == SelectSeq(Entities(chits), LAMBDA c : <<c.id>> = city_id)
    IN  IF exact_city # <<>> THEN exact_city[1] ELSE NoEnt

\* lines 1111-1117: the listing URL with builder_id appended
BuilderListingUrl(base_ent, builder_ent, parsed) ==
    LET listing_url == build_listing_url(base_ent, parsed)
    IN  IF Contains(listing_url, "?")
        THEN listing_url \o <<"&", "builder_id", "=", builder_ent.id>>
        ELSE listing_url \o <<"?", "builder_id", "=", builder_ent.id>>

BuilderDecision(q, parsed, base_ent, builder_ent) ==
    Decision("redirect", q, parsed.q, BuilderListingUrl(base_ent, builder_ent, parsed), base_ent, <<>>,
             "builder_intent_listing")

ConstraintSerp(q, city_id, context_url) ==
    Decision("serp", q, q, build_serp_url(q, city_id, NoneStr, context_url), NoEnt, <<>>,
             "constraint_heavy")

\* by_name.get(key, locs), lines 1148-1154
ConstraintCandidates(locs, key) == IF SameName(locs, key) # <<>> THEN SameName(locs, key) ELSE locs

\* constraint-heavy routing after the location search, lines 1141-1202
ConstraintOutcome(q, parsed, city_id, context_url, hits) ==
    LET locs == OfTypes(Entities(hits), LocationTypes)
        candidates == ConstraintCandidates(locs, normalize_q(LocationQ(parsed)))
        cities == CitiesOf(candidates)
        scoped == InCity(candidates, city_id)
    IN  IF locs = <<>> THEN ConstraintSerp(q, city_id, context_url)
        ELSE IF Len(candidates) > 1 /\ Cardinality(cities) > 1 /\ ~Truthy(city_id)
        THEN Decision("disambiguate", q, normalize_q(q), NoneStr, NoEnt, Prefix(candidates, 10),
                      "constraint_heavy_same_name")
        ELSE IF Truthy(city_id) /\ Len(scoped) = 1
        THEN Decision("redirect", q, normalize_q(q), build_listing_url(scoped[1], parsed), scoped[1], <<>>,
                      "constraint_heavy_city_scoped_listing")
        ELSE IF Len(candidates) = 1
        THEN Decision("redirect", q, normalize_q(q), build_listing_url(candidates[1], parsed),
                      candidates[1], <<>>, "constraint_heavy_listing")
        ELSE ConstraintSerp(q, city_id, context_url)

\* GapAtLeast with the gap test dropped
GapAtLeast_NoGap(top_score, second_score, min_gap) == TRUE

\* gap >= min_gap with gap = 1.0 if top <= 0 else (top - second) / max(top, 1e-9)
GapAtLeast(top_score, second_score, min_gap) ==
    IF top_score <= 0 THEN 100 >= min_gap
    ELSE (top_score - second_score) * 100 >= min_gap * top_score

\* SameNameAsTop comparing the names only
SameNameAsTop_AnyType(entities) ==
    SelectSeq(entities, LAMBDA e : normalize_q(e.name) = normalize_q(entities[1].name))

\* [e for e in entities if same normalized name and same type as the top entity]
SameNameAsTop(entities) ==
    SelectSeq(entities, LAMBDA e : /\ normalize_q(e.name) = normalize_q(entities[1].name)
                                   /\ e.entity_type = entities[1].entity_type)

\* default entity resolution and score-gap heuristic, lines 1205-1271
DefaultOutcome(q, city_id, context_url, hits) ==
    LET entities == Entities(hits)
        same_name == SameNameAsTop(entities)
        cities == CitiesOf(same_name)
        scoped == InCity(same_name, city_id)
        top_score == hits[1].score
        second_score == IF Len(hits) > 1 THEN hits[2].score ELSE 0
        match == hit_to_entity(hits[1])
    IN  IF hits = <<>>
        THEN Decision("serp", q, q, build_serp_url(q, city_id, NoneStr, context_url), NoEnt, <<>>,
                      "no_results")
        ELSE IF Len(same_name) > 1 /\ Cardinality(cities) > 1
        THEN IF Truthy(city_id) /\ Len(scoped) = 1
             THEN Decision("redirect", q, normalize_q(q), scoped[1].canonical_url, scoped[1], <<>>,
                           "city_scoped_same_name")
             ELSE Decision("disambiguate", q, normalize_q(q), NoneStr, NoEnt, Prefix(same_name, 10),
                           "same_name")
        ELSE IF top_score >= MIN_REDIRECT_SCORE /\ GapAtLeast(top_score, second_score, MIN_REDIRECT_GAP)
        THEN Decision("redirect", q, normalize_q(q), match.canonical_url, match, <<>>,
                      "confident_redirect")
        ELSE Decision("serp", q, normalize_q(q), build_serp_url(q, city_id, NoneStr, context_url),
                      NoEnt, <<>>, "ambiguous")

(***************************************************************************)
(* search/resolve_service.resolve and its wrapper api/search.resolve       *)
(***************************************************************************)
REDIRECT_TYPES == {"city", "micromarket", "locality", "listing_page", "locality_overview",
                   "rate_page", "project", "property_pdp", "builder"}

CONSTRAINT_TOKENS == {"bhk", "bedroom", "ready", "rtm", "uc", "under", "below", "above", "budget",
                      "lakh", "lac", "cr", "crore", "rent", "rental", "resale", "buy", "sale",
                      "furnished", "unfurnished", "possession", "new", "projects"}

RECURSIVE SplitWs(_)
\* str.split(): the maximal runs of non-space tokens
SplitWs(s) ==
    LET t == LStrip(s)
        n == FirstIn(t, {" "})
    IN  IF t = <<>> THEN <<>>
        ELSE IF n = 0 THEN <<t>>
        ELSE <<SubSeq(t, 1, n - 1)>> \o SplitWs(SubSeq(t, n, Len(t)))

\* t in CONSTRAINT_TOKENS for one whitespace-separated chunk of the lower-cased query
IsConstraintToken(chunk) ==
    \/ Len(chunk) = 1 /\ chunk[1] \in CONSTRAINT_TOKENS
    \/ chunk = <<"semi", "-", "furnished">>

\* resolve_service._looks_constraint_heavy
looks_constraint_heavy(q) ==
    LET toks == SplitWs(LowerText(q))
        hits == Cardinality({i \in 1..Len(toks) : IsConstraintToken(toks[i])})
    IN  (Len(toks) >= 4 /\ hits >= 1) \/ hits >= 2

STRONG_SCORE == 5
\* gap_ok threshold 0.18 and min_rel 0.75, in hundredths
GAP_OK == 18
MIN_REL == 75

\* resolve_service._score_gap(top, second) >= min_gap
ScoreGapAtLeast(top_score, second_score, min_gap) ==
    IF top_score <= 0 THEN 0 >= min_gap
    ELSE (top_score - second_score) * 100 >= min_gap * top_score

\* city_ok and the REDIRECT_TYPES filter, lines 94-107
ServiceFiltered(hits, city_id) ==
    SelectSeq(hits, LAMBDA h :
        /\ ~Truthy(city_id) \/ h.source.city_id = city_id \/ h.source.city_id = <<>>
        /\ h.source.entity_type \in REDIRECT_TYPES)

\* candidates within min_rel of the top score, lines 138-143
CloseCandidates(filtered, top_score) ==
    LET close == SelectSeq(Prefix(filtered, 8),
                           LAMBDA h : top_score > 0 /\ h.score * 100 >= MIN_REL * top_score)
    IN  [i \in 1..Len(close) |-> make_candidate(close[i])]

\* resolve_service.resolve after the index search, lines 89-161
ServiceOutcome(q, q_norm, city_id, hits) ==
    LET filtered == ServiceFiltered(hits, city_id)
        top_score == filtered[1].score
        second_score == IF Len(filtered) > 1 THEN filtered[2].score ELSE 0
        strong == top_score >= STRONG_SCORE
        gap_ok == ScoreGapAtLeast(top_score, second_score, GAP_OK)
        top_cand == make_candidate(filtered[1])
        candidates == CloseCandidates(filtered, top_score)
    IN  IF hits = <<>> THEN Decision("serp", q, q_norm, NoneStr, NoEnt, <<>>, "no_hits")
        ELSE IF filtered = <<>>
        THEN Decision("serp", q, q_norm, NoneStr, NoEnt, <<>>, "no_city_scoped_hits")
        ELSE IF strong /\ gap_ok
        THEN Decision("redirect", q, q_norm, top_cand.canonical_url, top_cand, <<>>, "None")
        ELSE IF Len(candidates) >= 2
        THEN Decision("disambiguate", q, q_norm, NoneStr, NoEnt, Prefix(candidates, 6), "None")
        ELSE Decision("serp", q, q_norm, NoneStr, NoEnt, <<>>, "low_confidence")

\* ApiWrap passing the service result through unchanged
ApiWrap_NoFill(res, q, city_id) == res

\* api/search.resolve, lines 145-152: a serp result without url gets one
ApiWrap(res, q, city_id) ==
    IF res.action = "serp" /\ ~Truthy(res.url)
    THEN [res EXCEPT !.url = api_build_serp_url(IF res.query # <<>> THEN res.query ELSE q, city_id)]
    ELSE res

(***************************************************************************)
(* Requests.                                                               *)
(***************************************************************************)
Queries ==
    { <<"baner">>,
      <<"noida">>,
      <<" ">>,
      <<"/", "pune", "/", "baner">>,
      <<"pune", "/", "baner", "?", "2bhk">>,
      <<"https", ":", "/", "/", "example", ".", "com", "/", "pune", "/", "baner", "?", "utm", "=", "1">>,
      <<"/", "old">>,
      <<"baner", " ", "rates">>,
      <<"noida", " ", "rates">>,
      <<"dlf", " ", "projects", " ", "in", " ", "noida">>,
      <<"dlf", " ", "projects">>,
      <<"dlf", " ", "projects", " ", "2", " ", "bhk", " ", "in", " ", "noida">>,
      <<"projects", " ", "by", " ", "dlf", " ", "for", " ", "rent", " ", "in", " ", "baner">>,
      <<"2", " ", "bhk", " ", "in", " ", "baner">>,
      <<"2", " ", "bhk", " ", "in", " ", "pune">>,
      <<"2", " ", "BHK", " ", "Rent", " ", "in", " ", "Baner", " ", "under", " ", "30k">>,
      <<"rent">> }

\* a city in which the index holds no document
OtherCity == <<"city_delhi">>

CityIds == {NoneStr, <<"city_pune">>, <<"city_noida">>, OtherCity}

ContextUrls == {NoneStr, <<"/", "pune">>}

\* contents of the redirects file after load_redirect_registry
Registries == { [p \in {<<"/", "old">>} |-> <<"/", "pune", "/", "baner">>] }

Endpoints == {"main", "api"}

VARIABLES
    REDIRECTS,      \* main.REDIRECTS, loaded once at import
    endpoint,       \* which resolve handler serves the request
    q,              \* the raw query
    city_id,
    context_url,
    pc,             \* the index call the handler is about to issue, or "done"
    clean_path,     \* main.resolve: clean_path = clean_path_from_anything(raw_q)
    parsed,         \* main.resolve: parsed = parse_query(raw_q)
    builder_ent,    \* main.resolve: the builder entity picked by builder-intent routing
    base_ent,       \* main.resolve: the base location of builder-intent routing
    resp,           \* the index response the handler returned on (earlier hits are dead locals)
    decision,       \* the response, once the handler has returned
    trace,          \* the index calls issued so far, in order
    heavy,          \* what the constraint classifier returned (1 / 0), NoneInt before it ran
    results,        \* what the parse endpoints and the classifier returned so far, call by call
    listing_url,    \* what build_listing_url returned, with builder_id appended where resolve does so
    SEARCH_EVENTS_FILE, \* main.SEARCH_EVENTS_FILE, resolved against the working directory of the process
    files,          \* the event logs on disk: path |-> lines, oldest first
    recents,        \* the last call of load_recent_queries with what it returned
    core_es,        \* core.es._es, the lazily created index client (NoneInt: None)
    clients,        \* how many index client instances core.es.get_es has created
    requests        \* the resolve requests the process is serving, by request number

vars == <<REDIRECTS, endpoint, q, city_id, context_url, pc, clean_path, parsed, builder_ent, base_ent, resp,
          decision, trace, heavy, results, listing_url, SEARCH_EVENTS_FILE, files, recents, core_es, clients,
          requests>>

NotParsed == [z \in {} |-> <<>>]

\* no event was logged and no log was read
NoLog == SEARCH_EVENTS_FILE = NoneStr /\ files = <<>> /\ recents = <<>>

\* no resolve request is being served beside the one at hand
NoRequests == core_es = NoneInt /\ clients = 0 /\ requests = <<>>

\* the variables of the event log and of the concurrent requests
Elsewhere == <<SEARCH_EVENTS_FILE, files, recents, core_es, clients, requests>>

\* one index round trip: which call, whether the index answered, whether it returned any hit
Call(op, ok, hit) == [op |-> op, ok |-> ok, hit |-> hit]

Init ==
    /\ REDIRECTS \in Registries
    /\ endpoint \in Endpoints
    /\ q \in Queries
    /\ city_id \in CityIds
    /\ context_url \in ContextUrls
    /\ endpoint = "api" => context_url = NoneStr
    /\ city_id = OtherCity => q = <<"baner">>
    /\ pc = "start"
    /\ clean_path = NoneStr
    /\ parsed = NotParsed
    /\ builder_ent = NoEnt
    /\ base_ent = NoEnt
    /\ resp = Answer(<<>>)
    /\ decision = NoDecision
    /\ trace = <<>>
    /\ heavy = NoneInt
    /\ results = <<>>
    /\ listing_url = NoneStr
    /\ NoLog /\ NoRequests

Step(next_pc, d) == [pc |-> next_pc, decision |-> d]

\* line 1135 onwards, up to the next index call; is_constraint_heavy(raw_q) parses raw_q
\* once more, which gives p again
AfterBuilder(p) ==
    IF HasConstraintField(p)
    THEN IF Truthy(LocationQ(p)) THEN Step("constraint_search", NoDecision)
         ELSE Step("done", ConstraintSerp(q, city_id, context_url))
    ELSE Step("default_search", NoDecision)

\* AfterPageIntent with the constraint-heavy rule tried ahead of the builder rule
AfterPageIntent_ConstraintFirst(p) ==
    IF HasConstraintField(p) THEN AfterBuilder(p)
    ELSE IF Truthy(p.builder_hint) THEN Step("builder_search", NoDecision)
    ELSE AfterBuilder(p)

\* line 1068 onwards
AfterPageIntent(p) ==
    IF Truthy(p.builder_hint) THEN Step("builder_search", NoDecision) ELSE AfterBuilder(p)

\* line 1012 onwards
AfterCleanPath(p) ==
    IF p.page_intent \in {"rate_page", "locality_overview"} /\ Truthy(p.location_query)
    THEN Step("page_intent_search", NoDecision)
    ELSE AfterPageIntent(p)

Goto(s) == pc' = s.pc /\ decision' = s.decision

Return(d) == pc' = "done" /\ decision' = d

\* a resolve request leaves its parameters alone, and the record of the parse calls
Same == UNCHANGED <<REDIRECTS, endpoint, q, city_id, context_url, heavy, results, listing_url, Elsewhere>>

\* ResolveStart going to the index without consulting the registry
ResolveStart_IndexFirst ==
    /\ pc = "start" /\ endpoint = "main"
    /\ clean_path' = clean_path_from_anything(q)
    /\ pc' = IF PathShaped(clean_path') THEN "canonical_lookup" ELSE "parse"
    /\ UNCHANGED <<parsed, builder_ent, base_ent, resp, decision, trace>>
    /\ Same

\* main.resolve up to its first index call, lines 978-996 (and 1012 when the shortcut does not apply)
ResolveStart ==
    /\ pc = "start" /\ endpoint = "main"
    /\ clean_path' = clean_path_from_anything(q)
    /\ IF PathShaped(clean_path') /\ clean_path' \in DOMAIN REDIRECTS
       THEN Return(RegistryDecision(q, REDIRECTS))
       ELSE IF PathShaped(clean_path')
       THEN pc' = "canonical_lookup" /\ decision' = decision
       ELSE pc' = "parse" /\ decision' = decision
    /\ UNCHANGED <<parsed, builder_ent, base_ent, resp, trace>>
    /\ Same

\* es_lookup_by_canonical_url: an exception of the index client is turned into None
es_lookup_by_canonical_url(r) == IF r.ok /\ r.hits # <<>> THEN r.hits ELSE <<>>

\* lines 996-1008
CanonicalLookup ==
    /\ pc = "canonical_lookup"
    /\ \E r \in LookupResponses(clean_path) :
          /\ trace' = Append(trace, Call(pc, r.ok, r.hits # <<>>))
          /\ IF es_lookup_by_canonical_url(r) # <<>>
             THEN Return(CleanUrlDecision(q, es_lookup_by_canonical_url(r)[1]))
             ELSE pc' = "parse" /\ decision' = decision
          /\ resp' = IF pc' = "done" THEN r ELSE Answer(<<>>)
    /\ UNCHANGED <<clean_path, parsed, builder_ent, base_ent>>
    /\ Same

\* line 1012 and the guards that lead to the next index call or to a result without one
Parse ==
    /\ pc = "parse"
    /\ parsed' = parse_query(q)
    /\ Goto(AfterCleanPath(parsed'))
    /\ UNCHANGED <<clean_path, builder_ent, base_ent, resp, trace>>
    /\ Same

\* lines 1014-1066
PageIntentSearch ==
    /\ pc = "page_intent_search"
    /\ \E r \in SearchResponses({parsed.page_intent}, 10) :
          /\ trace' = Append(trace, Call(pc, r.ok, r.hits # <<>>))
          /\ IF ~r.ok THEN Return(ErrorOutcome(q))
             ELSE IF PageIntentOutcome(q, parsed, city_id, r.hits) # NoDecision
             THEN Return(PageIntentOutcome(q, parsed, city_id, r.hits))
             ELSE Goto(AfterPageIntent(parsed))
          /\ resp' = IF pc' = "done" THEN r ELSE Answer(<<>>)
    /\ UNCHANGED <<clean_path, parsed, builder_ent, base_ent>>
    /\ Same

\* lines 1070-1085 and 1103
BuilderSearch ==
    /\ pc = "builder_search"
    /\ \E r \in SearchResponses({"builder"}, 5) :
          /\ trace' = Append(trace, Call(pc, r.ok, r.hits # <<>>))
          /\ IF ~r.ok THEN Return(ErrorOutcome(q)) /\ builder_ent' = builder_ent
             ELSE /\ builder_ent' = BuilderPick(parsed, r.hits)
                  /\ IF BuilderPick(parsed, r.hits) = NoEnt THEN Goto(AfterBuilder(parsed))
                     ELSE IF Truthy(LocationQ(parsed)) THEN pc' = "builder_location_search" /\ decision' = decision
                     ELSE IF Truthy(city_id) THEN pc' = "builder_city_search" /\ decision' = decision
                     ELSE Goto(AfterBuilder(parsed))
          /\ resp' = IF pc' = "done" THEN r ELSE Answer(<<>>)
    /\ UNCHANGED <<clean_path, parsed, base_ent>>
    /\ Same

\* lines 1086-1103 and 1110-1132
BuilderLocationSearch ==
    /\ pc = "builder_location_search"
    /\ \E r \in SearchResponses({}, 10) :
          /\ trace' = Append(trace, Call(pc, r.ok, r.hits # <<>>))
          /\ IF ~r.ok THEN Return(ErrorOutcome(q)) /\ base_ent' = base_ent
             ELSE /\ base_ent' = BuilderBase(parsed, city_id, r.hits)
                  /\ IF BuilderBase(parsed, city_id, r.hits) # NoEnt
                     THEN Return(BuilderDecision(q, parsed, BuilderBase(parsed, city_id, r.hits), builder_ent))
                     ELSE IF Truthy(city_id) THEN pc' = "builder_city_search" /\ decision' = decision
                     ELSE Goto(AfterBuilder(parsed))
          /\ resp' = IF pc' = "done" THEN r ELSE Answer(<<>>)
    /\ UNCHANGED <<clean_path, parsed, builder_ent>>
    /\ Same

\* lines 1103-1132
BuilderCitySearch ==
    /\ pc = "builder_city_search"
    /\ \E r \in SearchResponses({"city"}, 5) :
          /\ trace' = Append(trace, Call(pc, r.ok, r.hits # <<>>))
          /\ IF ~r.ok THEN Return(ErrorOutcome(q)) /\ base_ent' = base_ent
             ELSE /\ base_ent' = BuilderCity(city_id, r.hits)
                  /\ IF BuilderCity(city_id, r.hits) # NoEnt
                     THEN Return(BuilderDecision(q, parsed, BuilderCity(city_id, r.hits), builder_ent))
                     ELSE Goto(AfterBuilder(parsed))
          /\ resp' = IF pc' = "done" THEN r ELSE Answer(<<>>)
    /\ UNCHANGED <<clean_path, parsed, builder_ent>>
    /\ Same

\* lines 1139-1202
ConstraintSearch ==
    /\ pc = "constraint_search"
    /\ \E r \in SearchResponses({}, 10) :
          /\ trace' = Append(trace, Call(pc, r.ok, r.hits # <<>>))
          /\ IF ~r.ok THEN Return(ErrorOutcome(q))
             ELSE Return(ConstraintOutcome(q, parsed, city_id, context_url, r.hits))
          /\ resp' = IF pc' = "done" THEN r ELSE Answer(<<>>)
    /\ UNCHANGED <<clean_path, parsed, builder_ent, base_ent>>
    /\ Same

\* lines 1205-1271
DefaultSearch ==
    /\ pc = "default_search"
    /\ \E r \in SearchResponses({}, 10) :
          /\ trace' = Append(trace, Call(pc, r.ok, r.hits # <<>>))
          /\ IF ~r.ok THEN Return(ErrorOutcome(q))
             ELSE Return(DefaultOutcome(q, city_id, context_url, r.hits))
          /\ resp' = IF pc' = "done" THEN r ELSE Answer(<<>>)
    /\ UNCHANGED <<clean_path, parsed, builder_ent, base_ent>>
    /\ Same

\* api/search.resolve calling resolve_service.resolve, lines 53-62 of the service
ApiResolveStart ==
    /\ pc = "start" /\ endpoint = "api"
    /\ IF normalize_query(q) = <<>>
       THEN Return(ApiWrap(Decision("serp", q, normalize_query(q), NoneStr, NoEnt, <<>>, "empty"), q, city_id))
       ELSE IF looks_constraint_heavy(normalize_query(q))
       THEN Return(ApiWrap(Decision("serp", q, normalize_query(q), NoneStr, NoEnt, <<>>, "constraint_heavy"),
                           q, city_id))
       ELSE pc' = "service_search" /\ decision' = decision
    /\ UNCHANGED <<clean_path, parsed, builder_ent, base_ent, resp, trace>>
    /\ Same

\* resolve_service.resolve lines 88-161 under the wrapper
ServiceSearch ==
    /\ pc = "service_search"
    /\ \E r \in SearchResponses({}, 8) :
          /\ trace' = Append(trace, Call(pc, r.ok, r.hits # <<>>))
          /\ IF ~r.ok THEN Return(ErrorOutcome(q))
             ELSE Return(ApiWrap(ServiceOutcome(q, normalize_query(q), city_id, r.hits), q, city_id))
          /\ resp' = IF pc' = "done" THEN r ELSE Answer(<<>>)
    /\ UNCHANGED <<clean_path, parsed, builder_ent, base_ent>>
    /\ Same

Next ==
    \/ ResolveStart
    \/ CanonicalLookup
    \/ Parse
    \/ PageIntentSearch
    \/ BuilderSearch
    \/ BuilderLocationSearch
    \/ BuilderCitySearch
    \/ ConstraintSearch
    \/ DefaultSearch
    \/ ApiResolveStart
    \/ ServiceSearch

Spec == Init /\ [][Next]_vars

(***************************************************************************)
(* api/v1/search_parse: the second parser, behind its own /parse endpoint. *)
(* Its patterns have no word boundaries, so a unit or "bhk" is recognised  *)
(* at the start of a longer word and a synonym inside one.                 *)
(***************************************************************************)
\* search_parse._normalize_space
normalize_space(s) == CollapseRuns(Strip(s), " ")

\* the words of the vocabulary that begin with "bhk"
BhkWords == {"bhk", "bhks"}

\* BHK_RE = (\d+)\s*bhk at token i of the lower-cased text: the number, else NoneInt
V1BhkAt(ql, i) ==
    IF Len(Compound(ql[i])) = 2 /\ IsNum(Compound(ql[i])[1]) /\ Compound(ql[i])[2] \in BhkWords
    THEN NumVal[Compound(ql[i])[1]]
    ELSE IF IsNum(ql[i]) /\ At(ql, SkipSp(ql, i + 1)) \in BhkWords THEN NumVal[ql[i]]
    ELSE NoneInt

BhkFirst(ql, i) == IF i = 0 THEN NoneInt ELSE V1BhkAt(ql, i)

\* search_parse._parse_bhk: the first match of BHK_RE, whatever the number
parse_bhk(s) ==
    BhkFirst(LowerText(s), FirstMatch({i \in 1..Len(s) : V1BhkAt(LowerText(s), i) # NoneInt}))

\* search_parse._parse_intent: rent vocabulary first
parse_intent(s) ==
    IF HasWord(LowerText(s), {"rent", "rental", "lease"}) THEN "rent"
    ELSE IF HasWord(LowerText(s), {"buy", "purchase"}) THEN "buy"
    ELSE "None"

\* PROPERTY_TYPE_MAP in its order, each key with the words of the vocabulary
\* that contain one of its synonyms
PROPERTY_TYPE_MAP ==
    << <<"apartment", {"apartment", "apartments", "flat", "flats"}>>,
       <<"builder_floor", {"floor", "floors"}>>,
       <<"plot", {"plot", "plots", "land"}>>,
       <<"villa", {"villa", "villas", "house", "houses"}>>,
       <<"office", {"office", "offices"}>>,
       <<"retail", {"shop", "shops", "retail"}>> >>

TypeFirst(k) == IF k = 0 THEN "None" ELSE PROPERTY_TYPE_MAP[k][1]

\* search_parse._parse_property_type: the first key with a synonym somewhere in the text
parse_property_type(s) ==
    TypeFirst(FirstMatch({k \in 1..Len(PROPERTY_TYPE_MAP) : HasWord(LowerText(s), PROPERTY_TYPE_MAP[k][2])}))

\* line 61: a bare amount up to this many is taken as lakhs
BareLakhLimit == 200

\* line 64
DirectionWindow == 20

\* digits that the texts of the model have after a decimal point
FracDigits == BhkDigits \cup {"0", "7"}

\* a match of BUDGET_RE starts at token i: a number or a word that begins with
\* digits, unless it is the fraction of the number before it
V1AmountStart(ql, i) ==
    /\ IsNum(ql[i]) \/ (Len(Compound(ql[i])) = 2 /\ IsNum(Compound(ql[i])[1]))
    /\ ~(ql[i] \in FracDigits /\ At(ql, i - 1) = "." /\ IsNum(At(ql, i - 2)))

\* the last token of the number that starts at token m
V1NumEnd(ql, m) ==
    IF IsNum(ql[m]) /\ At(ql, m + 1) = "." /\ At(ql, m + 2) \in FracDigits THEN m + 2 ELSE m

\* (cr|crore|l|lac|lakh|k)? at the start of the word w: the first alternative that matches
V1Unit(w) ==
    IF w \in {"cr", "crore", "crores"} THEN "cr"
    ELSE IF w \in {"l", "lac", "lakh", "lakhs", "land", "lease", "less", "locality", "listing", "listings"}
    THEN "l"
    ELSE IF w \in {"k"} THEN "k"
    ELSE ""

\* lines 53-61, in tenths of a rupee: the amount is 10 * amt
V1Value10(num10, unit) ==
    IF unit = "cr" THEN num10 * 10000000
    ELSE IF unit = "l" THEN num10 * 100000
    ELSE IF unit = "k" THEN num10 * 1000
    ELSE IF num10 <= 10 * BareLakhLimit THEN num10 * 100000 ELSE num10

\* UNDER_RE = \b(under|below|upto|up to|<=)\b in the characters lo..hi of the text
V1Under(ql, lo, hi) ==
    \E k \in 1..Len(ql) :
        /\ CharLen(ql, 1, k - 1) >= lo
        /\ \/ ql[k] \in {"under", "below", "upto"} /\ CharLen(ql, 1, k) <= hi
           \/ ql[k] = "up" /\ At(ql, k + 1) = " " /\ At(ql, k + 2) = "to" /\ CharLen(ql, 1, k + 2) <= hi

\* ABOVE_RE = \b(above|over|>=|more than)\b in the characters lo..hi of the text;
\* a window that ends right behind the "over" of "overview" has the word too
V1Above(ql, lo, hi) ==
    \E k \in 1..Len(ql) :
        /\ CharLen(ql, 1, k - 1) >= lo
        /\ \/ ql[k] \in {"above", "over"} /\ CharLen(ql, 1, k) <= hi
           \/ ql[k] = "more" /\ At(ql, k + 1) = " " /\ At(ql, k + 2) = "than"
              /\ CharLen(ql, 1, k + 2) <= hi
           \/ ql[k] = "overview" /\ CharLen(ql, 1, k - 1) + 4 = hi

\* lines 65-71: the direction; without a clear one the value is a maximum
BudgetDirection(value10, under, above) ==
    IF above /\ ~under THEN [min |-> value10, max |-> NoneInt]
    ELSE [min |-> NoneInt, max |-> value10]

\* line 64: the window reaches DirectionWindow characters to either side of the match
BudgetWindow(ql, num10, unit, lo, hi) ==
    BudgetDirection(V1Value10(num10, unit), V1Under(ql, lo, hi), V1Above(ql, lo, hi))

BudgetSpan(ql, num10, unit, m_start, m_end) ==
    BudgetWindow(ql, num10, unit, Max({0, m_start - DirectionWindow}), m_end + Len(unit) + DirectionWindow)

\* the match that starts at token m: number, \s*, unit; c is Compound(ql[m]) and
\* nxt the first token behind the number that is no space
BudgetUnit(ql, m, num10, c, nxt) ==
    IF Len(c) = 2
    THEN BudgetSpan(ql, num10, V1Unit(c[2]), CharLen(ql, 1, m - 1), CharLen(ql, 1, m - 1) + Len(c[1]))
    ELSE BudgetSpan(ql, num10, V1Unit(At(ql, nxt)), CharLen(ql, 1, m - 1), CharLen(ql, 1, nxt - 1))

BudgetAtTok(ql, m) ==
    IF m = 0 THEN [min |-> NoneInt, max |-> NoneInt]
    ELSE BudgetUnit(ql, m, AmountAt(ql, m).num10, Compound(ql[m]), SkipSp(ql, V1NumEnd(ql, m) + 1))

\* line 47: the last match of BUDGET_RE
LastMatch(I) == IF I = {} THEN 0 ELSE Max(I)

BudgetLast(ql) == BudgetAtTok(ql, LastMatch({i \in 1..Len(ql) : V1AmountStart(ql, i)}))

\* search_parse._parse_budget
parse_budget(s) == BudgetLast(LowerText(s))

\* lines 121-131
V1Signals(bhk, budget, intent, property_type) ==
    (IF bhk # NoneInt THEN <<"bhk">> ELSE <<>>)
    \o (IF budget.max # NoneInt THEN <<"budget_max">> ELSE <<>>)
    \o (IF budget.min # NoneInt THEN <<"budget_min">> ELSE <<>>)
    \o (IF intent # "None" THEN <<intent>> ELSE <<>>)
    \o (IF property_type # "None" THEN <<property_type>> ELSE <<>>)

V1Parsed(raw, qn, budget, bhk, intent, property_type) ==
    [q |-> raw, normalized_q |-> qn, intent |-> intent, bhk |-> bhk, property_type |-> property_type,
     budget |-> budget, signals |-> V1Signals(bhk, budget, intent, property_type)]

V1Normalized(raw, qn) ==
    V1Parsed(raw, qn, parse_budget(qn), parse_bhk(qn), parse_intent(qn), parse_property_type(qn))

\* search_parse.parse_query, the "parsed" part of its response
v1_parse_query(raw) == V1Normalized(raw, normalize_space(raw))

\* search_parse._has_constraints
has_constraints(p) ==
    \/ p.bhk # NoneInt
    \/ p.budget.min # NoneInt
    \/ p.budget.max # NoneInt
    \/ p.intent # "None"
    \/ p.property_type # "None"

(***************************************************************************)
(* The parsers and the classifier called on their own: main.parse (the     *)
(* /parse endpoint), main.is_constraint_heavy and search_parse.parse_query,*)
(* one call after another.                                                 *)
(***************************************************************************)
ParseQueries ==
    { <<"under", " ", "50L">>,
      <<"between", " ", "50L", " ", "and", " ", "1cr">>,
      <<"above", " ", "20k", " ", "rent">>,
      <<"above", " ", "20k", " ", "pm">>,
      <<"under", " ", "50">>,
      <<"under", " ", "5000000">>,
      <<"above", " ", "201">>,
      <<"between", " ", "50", " ", "and", " ", "150">>,
      <<"between", " ", "50", " ", "and", " ", "150", " ", "l">>,
      <<"between", " ", "50l", " ", "and", " ", "1cr", " ", "under", " ", "20k">>,
      <<"under", " ", "50l", " ", "above", " ", "1cr">>,
      <<"under", " ", "2", ".", "3", " ", "l">>,
      <<"under", " ", "1", ".", "5", " ", "cr">>,
      <<"up", " ", "to", " ", "50", " ", "l">>,
      <<"more", " ", "than", " ", "1", " ", "cr", " ", "in", " ", "noida">>,
      <<"tenant", " ", "above", " ", "20k">>,
      <<"flat", " ", "for", " ", "30k", " ", "per", " ", "month">>,
      <<"2", " ", "bhk">>,
      <<"2bhk", " ", "flat", " ", "in", " ", "baner">>,
      <<"0", " ", "bhk">>,
      <<"12", " ", "bhk">>,
      <<"12bhk">>,
      <<"7", " ", "bhk", " ", "3", " ", "bhk">>,
      <<"3", " ", "bhk", " ", "villa", " ", "under", " ", "50">>,
      <<"dlf", " ", "projects">>,
      <<"dlf", " ", "projects", " ", "in", " ", "noida">>,
      <<"projects", " ", "by", " ", "dlf">>,
      <<"builder", " ", "dlf", " ", "in", " ", "noida">>,
      <<"dlf", " ", "projects", " ", "rates">>,
      <<"baner", " ", "rates">>,
      <<"baner", " ", "overview">>,
      <<"baner", " ", "rates", " ", "overview">>,
      <<"2", " ", "bhk", " ", "baner", " ", "rates">>,
      <<"baner">>,
      <<"rent">>,
      <<"buy", " ", "flat", " ", "in", " ", "baner">>,
      <<"ready", " ", "to", " ", "move", " ", "in", " ", "baner">>,
      <<"flats", " ", "in", " ", "baner">>,
      <<"plot", " ", "above", " ", "50", " ", "lakh">>,
      <<"over", " ", "50", " ", "land">>,
      <<"2", " ", "bhk", " ", "rent", " ", "in", " ", "baner", " ", "under", " ", "30k">>,
      <<"2", " ", "BHK", " ", "Rent", " ", "in", " ", "Baner", " ", "under", " ", "30k">>,
      <<"under", " ", "construction", " ", "in", " ", "noida">>,
      <<"lease", " ", "office", " ", "in", " ", "pune">> }

ParseEndpoints == {"main_parse", "is_constraint_heavy", "v1_parse"}

\* calls in a row
MaxCalls == 3

\* the queries that later calls may send, besides the one the first call sent
FollowUps == {<<"3", " ", "bhk", " ", "rent">>, <<"under", " ", "50L">>}

Result(op, query, out, flag) == [op |-> op, q |-> query, parsed |-> out, heavy |-> flag]

BoolInt(b) == IF b THEN 1 ELSE 0

ParseInit ==
    /\ REDIRECTS \in Registries
    /\ endpoint \in ParseEndpoints
    /\ q \in ParseQueries
    /\ city_id = NoneStr
    /\ context_url = NoneStr
    /\ pc = "start"
    /\ clean_path = NoneStr
    /\ parsed = NotParsed
    /\ builder_ent = NoEnt
    /\ base_ent = NoEnt
    /\ resp = Answer(<<>>)
    /\ decision = NoDecision
    /\ trace = <<>>
    /\ heavy = NoneInt
    /\ results = <<>>
    /\ listing_url = NoneStr
    /\ NoLog /\ NoRequests

\* what no parse call touches
ParseSame ==
    UNCHANGED <<REDIRECTS, city_id, context_url, clean_path, builder_ent, base_ent, resp, decision, trace,
                listing_url, Elsewhere>>

\* parse_query(q): the whole of main.parse, the first line of is_constraint_heavy
ParseQuery_Sticky ==
    /\ pc = "start" /\ endpoint \in {"main_parse", "is_constraint_heavy"}
    /\ parsed' = LET p == parse_query(q)
                 IN  IF results # <<>> /\ p.bhk = NoneInt
                     THEN [p EXCEPT !.bhk = results[Len(results)].parsed.bhk]
                     ELSE p
    /\ IF endpoint = "main_parse"
       THEN pc' = "done" /\ results' = Append(results, Result(endpoint, q, parsed', NoneInt))
       ELSE pc' = "classify" /\ results' = results
    /\ UNCHANGED <<endpoint, q, heavy>>
    /\ ParseSame

ParseQuery ==
    /\ pc = "start" /\ endpoint \in {"main_parse", "is_constraint_heavy"}
    /\ parsed' = parse_query(q)
    /\ IF endpoint = "main_parse"
       THEN pc' = "done" /\ results' = Append(results, Result(endpoint, q, parsed', NoneInt))
       ELSE pc' = "classify" /\ results' = results
    /\ UNCHANGED <<endpoint, q, heavy>>
    /\ ParseSame

\* is_constraint_heavy, lines 190-202: any(...) over the fields of the parse
Classify ==
    /\ pc = "classify"
    /\ heavy' = BoolInt(HasConstraintField(parsed))
    /\ results' = Append(results, Result(endpoint, q, parsed, heavy'))
    /\ pc' = "done"
    /\ UNCHANGED <<endpoint, q, parsed>>
    /\ ParseSame

\* search_parse.parse_query: the parse and the constraint_heavy flag of its response
V1Parse ==
    /\ pc = "start" /\ endpoint = "v1_parse"
    /\ parsed' = v1_parse_query(q)
    /\ heavy' = BoolInt(has_constraints(parsed'))
    /\ results' = Append(results, Result(endpoint, q, parsed', heavy'))
    /\ pc' = "done"
    /\ UNCHANGED <<endpoint, q>>
    /\ ParseSame

\* the next call, with the first call's query or another one
NextCall ==
    /\ pc = "done" /\ Len(results) < MaxCalls
    /\ endpoint' \in ParseEndpoints
    /\ q' \in {results[1].q} \cup FollowUps
    /\ pc' = "start"
    /\ parsed' = NotParsed
    /\ heavy' = NoneInt
    /\ UNCHANGED results
    /\ ParseSame

ParseNext ==
    \/ ParseQuery
    \/ Classify
    \/ V1Parse
    \/ NextCall

ParseSpec == ParseInit /\ [][ParseNext]_vars

(***************************************************************************)
(* main.build_listing_url called on its own, on any entity and any parse,  *)
(* alone as in lines 1171 and 1184 of resolve or followed by the builder_id*)
(* of lines 1113-1117.                                                     *)
(***************************************************************************)
\* a project document, besides the documents of the index
ProjectDoc ==
    Doc("proj_godrej_woods", "project", <<"Godrej", " ", "Woods">>, <<"city_noida">>,
        <<"/", "noida", "/", "projects", "/", "godrej", "-", "woods">>)

\* the entities build_listing_url is given
UrlEntities == {hit_to_entity([source |-> d, score |-> STRONG_SCORE]) : d \in Docs \cup {ProjectDoc}}

UrlBuilders == {NoEnt} \cup {e \in UrlEntities : e.entity_type = "builder"}

UrlInit ==
    /\ REDIRECTS \in Registries
    /\ endpoint = "build_listing_url"
    /\ q \in ParseQueries
    /\ city_id = NoneStr
    /\ context_url = NoneStr
    /\ pc = "start"
    /\ clean_path = NoneStr
    /\ parsed = NotParsed
    /\ builder_ent \in UrlBuilders
    /\ base_ent \in UrlEntities
    /\ resp = Answer(<<>>)
    /\ decision = NoDecision
    /\ trace = <<>>
    /\ heavy = NoneInt
    /\ results = <<>>
    /\ listing_url = NoneStr
    /\ NoLog /\ NoRequests

UrlSame ==
    UNCHANGED <<REDIRECTS, endpoint, q, city_id, context_url, clean_path, builder_ent, base_ent, resp, decision,
                trace, heavy, results, Elsewhere>>

\* the ParsedQuery the URL is built from
UrlParse ==
    /\ pc = "start" /\ endpoint = "build_listing_url"
    /\ parsed' = parse_query(q)
    /\ pc' = "build"
    /\ UNCHANGED listing_url
    /\ UrlSame

\* listing_url = build_listing_url(entity, parsed)
BuildListingUrl ==
    /\ pc = "build" /\ builder_ent = NoEnt
    /\ listing_url' = build_listing_url(base_ent, parsed)
    /\ pc' = "done"
    /\ UNCHANGED parsed
    /\ UrlSame

\* lines 1111-1117: build_listing_url and then the builder_id parameter
BuildBuilderListingUrl ==
    /\ pc = "build" /\ builder_ent # NoEnt
    /\ listing_url' = BuilderListingUrl(base_ent, builder_ent, parsed)
    /\ pc' = "done"
    /\ UNCHANGED parsed
    /\ UrlSame

UrlNext ==
    \/ UrlParse
    \/ BuildListingUrl
    \/ BuildBuilderListingUrl

UrlSpec == UrlInit /\ [][UrlNext]_vars

(***************************************************************************)
(* The search event log: main.log_search and events/store.log_search_event *)
(* append one JSON line per event, events/recent.load_recent_queries reads *)
(* a log newest line first.  A path is the sequence of its components.     *)
(***************************************************************************)
\* pathlib: Path.parent
Parent(path) == SubSeq(path, 1, Len(path) - 1)

\* where the backend folder of the checkout lies
BackendDir == <<"repo", "backend">>

\* recent.SEARCH_LOG_PATH = Path(__file__).resolve().parent.parent / ".events" / "search.jsonl"
SEARCH_LOG_PATH ==
    Parent(Parent(BackendDir \o <<"app", "events", "recent.py">>)) \o <<".events", "search.jsonl">>

\* store.BASE_DIR = Path(__file__).resolve().parents[2]
BASE_DIR == Parent(Parent(Parent(BackendDir \o <<"app", "events", "store.py">>)))

\* store.SEARCH_LOG with EVENTS_DIR unset: BASE_DIR / ".events" / "search.jsonl"
SEARCH_LOG == BASE_DIR \o <<".events", "search.jsonl">>

\* the directories the server is started from: the checkout or its backend folder
WorkingDirs == {Parent(BackendDir), BackendDir}

\* main.SEARCH_EVENTS_FILE = Path("backend/.events") / "search.jsonl", opened relative to cwd
MainEventsFile(cwd) == cwd \o <<"backend", ".events", "search.jsonl">>

LogPaths == {SEARCH_LOG_PATH, SEARCH_LOG} \cup {MainEventsFile(cwd) : cwd \in WorkingDirs}

\* at most this many lines are written in all
MaxLines == 3

\* one line of a log: a JSON object with the fields of a search event, a blank
\* line, or a line that is not JSON
Line(kind, raw_query, normalized_query, line_city, timestamp) ==
    [kind |-> kind, raw_query |-> raw_query, normalized_query |-> normalized_query,
     city_id |-> line_city, timestamp |-> timestamp]

\* the events a client posts: raw query, normalized query, city
SearchEvents ==
    { <<<<"Baner">>, <<"Baner">>, NoneStr>>,
      <<<<"Baner">>, <<"Baner">>, <<"city_pune">>>>,
      <<<<"baner">>, <<"baner">>, NoneStr>>,
      <<<<"noida", " ">>, <<>>, NoneStr>>,
      <<<<>>, <<>>, NoneStr>> }

RECURSIVE LinesIn(_, _)
\* the number of lines in the logs of the paths P
LinesIn(fs, P) ==
    IF P = {} THEN 0
    ELSE LET p == CHOOSE x \in P : TRUE IN Len(fs[p]) + LinesIn(fs, P \ {p})

\* the time stamp of the next event: the lines written so far, plus one
Now == LinesIn(files, LogPaths) + 1

\* recent.RecentQuery built from a line, lines 71-75 and 91-97
RecentQuery(raw_q, norm_q, line_city, ts) ==
    [raw_query |-> IF raw_q # <<>> THEN raw_q ELSE norm_q, normalized_query |-> norm_q,
     city_id |-> line_city, timestamp |-> ts]

\* (obj.get(name) or "").strip()
StrField(v) == IF Truthy(v) THEN Strip(v) ELSE <<>>

\* lines 72 and 84: norm_q and the dedupe key of an event line
NormOf(line) ==
    IF Truthy(line.normalized_query) THEN Strip(line.normalized_query) ELSE StrField(line.raw_query)

KeyOf(line) == <<LowerText(NormOf(line)), IF Truthy(line.city_id) THEN line.city_id ELSE NoneStr>>

\* lines 61-82: the line is blank, not JSON, without query, or of another city
Skipped_AnyCity(line, city) ==
    \/ line.kind # "event"
    \/ NormOf(line) = <<>>

Skipped(line, city) ==
    \/ line.kind # "event"
    \/ NormOf(line) = <<>>
    \/ city # NoneStr /\ KeyOf(line)[2] # city

RECURSIVE ScanLog(_, _, _, _, _, _)
\* the loop of load_recent_queries over reversed(lines), at line i
ScanLog(lines, i, city, limit, seen, out) ==
    IF i = 0 THEN out
    ELSE IF Skipped(lines[i], city) \/ KeyOf(lines[i]) \in seen
    THEN ScanLog(lines, i - 1, city, limit, seen, out)
    ELSE IF Len(out) + 1 >= limit
    THEN Append(out, RecentQuery(StrField(lines[i].raw_query), NormOf(lines[i]), KeyOf(lines[i])[2],
                                 lines[i].timestamp))
    ELSE ScanLog(lines, i - 1, city, limit, seen \cup {KeyOf(lines[i])},
                 Append(out, RecentQuery(StrField(lines[i].raw_query), NormOf(lines[i]),
                                         KeyOf(lines[i])[2], lines[i].timestamp)))

\* recent.load_recent_queries(city_id, limit, log_path); a log that does not exist reads as empty
load_recent_queries(fs, city, limit, log_path) ==
    ScanLog(fs[IF log_path # NoneStr THEN log_path ELSE SEARCH_LOG_PATH],
            Len(fs[IF log_path # NoneStr THEN log_path ELSE SEARCH_LOG_PATH]), city, limit, {}, <<>>)

\* the limits zero_state passes on: Query(default=8, ge=1, le=32)
Limits == {1, 2}

LogCities == {NoneStr, <<"city_pune">>, <<"city_noida">>}

LogInit ==
    /\ REDIRECTS \in Registries
    /\ endpoint = "events"
    /\ q = <<>>
    /\ city_id = NoneStr
    /\ context_url = NoneStr
    /\ pc = "serving"
    /\ clean_path = NoneStr
    /\ parsed = NotParsed
    /\ builder_ent = NoEnt
    /\ base_ent = NoEnt
    /\ resp = Answer(<<>>)
    /\ decision = NoDecision
    /\ trace = <<>>
    /\ heavy = NoneInt
    /\ results = <<>>
    /\ listing_url = NoneStr
    /\ SEARCH_EVENTS_FILE \in {MainEventsFile(cwd) : cwd \in WorkingDirs}
    /\ files = [p \in LogPaths |-> <<>>]
    /\ recents = <<>>
    /\ NoRequests

LogSame ==
    UNCHANGED <<REDIRECTS, endpoint, q, city_id, context_url, pc, clean_path, parsed, builder_ent, base_ent, resp,
                decision, trace, heavy, results, listing_url, SEARCH_EVENTS_FILE, core_es, clients, requests>>

\* append_jsonl / _append_jsonl: one line at the end of the log
AppendLine(path, line) ==
    /\ files' = [files EXCEPT ![path] = Append(@, line)]
    /\ recents' = <<>>
    /\ LogSame

\* main.log_search, lines 1288-1301
LogSearch ==
    /\ endpoint = "events" /\ Now <= MaxLines
    /\ \E ev \in SearchEvents : AppendLine(SEARCH_EVENTS_FILE, Line("event", ev[1], ev[2], ev[3], Now))

\* store.log_search_event
LogSearchEvent ==
    /\ endpoint = "events" /\ Now <= MaxLines
    /\ \E ev \in SearchEvents : AppendLine(SEARCH_LOG, Line("event", ev[1], ev[2], ev[3], Now))

\* a log is touched from outside the process: a blank line or a line cut short
ForeignLine ==
    /\ endpoint = "events" /\ Now <= MaxLines
    /\ \E kind \in {"blank", "malformed"} : AppendLine(SEARCH_LOG, Line(kind, <<>>, <<>>, NoneStr, Now))

\* load_recent_queries as zero_state calls it (no log_path), or on a log named by the caller
LoadRecent ==
    /\ endpoint = "events"
    /\ \E city \in LogCities, limit \in Limits, log_path \in {NoneStr, SEARCH_LOG} :
          recents' = [city_id |-> city, limit |-> limit, log_path |-> log_path,
                      entries |-> load_recent_queries(files, city, limit, log_path)]
    /\ UNCHANGED files
    /\ LogSame

LogNext ==
    \/ LogSearch
    \/ LogSearchEvent
    \/ ForeignLine
    \/ LoadRecent

LogSpec == LogInit /\ [][LogNext]_vars

(***************************************************************************)
(* Resolve requests served side by side.  main.resolve is a plain function *)
(* and runs on a worker thread; api/search.resolve is a coroutine that     *)
(* calls resolve_service.resolve without awaiting, so the event loop runs  *)
(* one such call at a time.  main.es is made when main is imported,        *)
(* core.es._es by the first call of core.es.get_es.                        *)
(***************************************************************************)
\* this many resolve requests are in flight
MaxRequests == 2

\* main.es = get_es(), made at import: the first index client of the process
MainEs == 1

ConcQueries == {<<"baner">>, <<" ">>, <<"2", " ", "bhk", " ", "in", " ", "baner">>}

\* a request that has arrived at its handler
Request(handler, query) == [handler |-> handler, q |-> query, pc |-> "start", es |-> NoneInt]

ConcInit ==
    /\ REDIRECTS \in Registries
    /\ endpoint = "concurrent"
    /\ q = <<>>
    /\ city_id = NoneStr
    /\ context_url = NoneStr
    /\ pc = "serving"
    /\ clean_path = NoneStr
    /\ parsed = NotParsed
    /\ builder_ent = NoEnt
    /\ base_ent = NoEnt
    /\ resp = Answer(<<>>)
    /\ decision = NoDecision
    /\ trace = <<>>
    /\ heavy = NoneInt
    /\ results = <<>>
    /\ listing_url = NoneStr
    /\ NoLog
    /\ core_es = NoneInt
    /\ clients = MainEs
    /\ requests \in [1..MaxRequests -> {Request(h, query) : h \in {"main", "api"}, query \in ConcQueries}]

ConcSame ==
    UNCHANGED <<REDIRECTS, endpoint, q, city_id, context_url, pc, clean_path, parsed, builder_ent, base_ent, resp,
                decision, trace, heavy, results, listing_url, SEARCH_EVENTS_FILE, files, recents>>

\* request r moves on to `to`, holding the index client `es`
Advance(r, to, es) == requests' = [requests EXCEPT ![r].pc = to, ![r].es = es]

\* the event loop is not inside a call of resolve_service.resolve
LoopFree == \A o \in DOMAIN requests : requests[o].handler = "api" => requests[o].pc \in {"start", "done"}

\* main.resolve: reads REDIRECTS and searches with the module's client main.es
MainResolve ==
    \E r \in DOMAIN requests :
        /\ requests[r].handler = "main" /\ requests[r].pc = "start"
        /\ Advance(r, "done", MainEs)
        /\ UNCHANGED <<core_es, clients>>
        /\ ConcSame

\* resolve_service.resolve lines 53-60: the answers given before any index call
ServiceBegin ==
    \E r \in DOMAIN requests :
        /\ requests[r].handler = "api" /\ requests[r].pc = "start"
        /\ LoopFree
        /\ IF normalize_query(requests[r].q) = <<>> \/ looks_constraint_heavy(normalize_query(requests[r].q))
           THEN Advance(r, "done", NoneInt)
           ELSE Advance(r, "get_es", NoneInt)
        /\ UNCHANGED <<core_es, clients>>
        /\ ConcSame

\* core.es.get_es line 8: if _es is None
GetEsTest ==
    \E r \in DOMAIN requests :
        /\ requests[r].pc = "get_es"
        /\ Advance(r, IF core_es = NoneInt THEN "create" ELSE "return", NoneInt)
        /\ UNCHANGED <<core_es, clients>>
        /\ ConcSame

\* core.es.get_es line 9: _es = Elasticsearch(ELASTIC_URL)
GetEsCreate ==
    \E r \in DOMAIN requests :
        /\ requests[r].pc = "create"
        /\ clients' = clients + 1
        /\ core_es' = clients + 1
        /\ Advance(r, "return", NoneInt)
        /\ ConcSame

\* core.es.get_es line 10 and resolve_service.resolve line 62: es = get_es()
GetEsReturn ==
    \E r \in DOMAIN requests :
        /\ requests[r].pc = "return"
        /\ Advance(r, "search", core_es)
        /\ UNCHANGED <<core_es, clients>>
        /\ ConcSame

\* resolve_service.resolve lines 88-161: the search and the decision
ServiceFinish ==
    \E r \in DOMAIN requests :
        /\ requests[r].pc = "search"
        /\ Advance(r, "done", requests[r].es)
        /\ UNCHANGED <<core_es, clients>>
        /\ ConcSame

ConcNext ==
    \/ MainResolve
    \/ ServiceBegin
    \/ GetEsTest
    \/ GetEsCreate
    \/ GetEsReturn
    \/ ServiceFinish

ConcSpec == ConcInit /\ [][ConcNext]_vars

(***************************************************************************)
(* Properties.                                                             *)
(***************************************************************************)
Done == pc = "done"

LastCall == trace[Len(trace)]

Called(op) == \E i \in 1..Len(trace) : trace[i].op = op

IndexFailed == \E i \in 1..Len(trace) : ~trace[i].ok

Count(s, t) == Cardinality({i \in 1..Len(s) : s[i] = t})

StartsWith(s, p) == Len(s) >= Len(p) /\ SubSeq(s, 1, Len(p)) = p

EndsWith(s, p) == Len(s) >= Len(p) /\ SubSeq(s, Len(s) - Len(p) + 1, Len(s)) = p

\* C1: a Decision with action serp, from either resolve endpoint and on every
\* serp branch, has a url that is present and reads /search?q=<encoded query>...
C1_SerpHasSearchUrl ==
    decision.action = "serp" =>
        /\ decision.url # NoneStr
        /\ StartsWith(decision.url, <<"/", "search", "?", "q", "=">>)
        /\ \A i \in 6..Len(decision.url) : decision.url[i] \notin {" ", "/", "?", "#"}

C1_Witness ==
    /\ endpoint = "api" /\ decision.action = "serp" /\ decision.reason = "no_city_scoped_hits"
    /\ decision.url # NoneStr

\* C2: a Decision with action disambiguate has at least two candidates and
\* all of them have the same entity_type.
C2_DisambiguateSameType ==
    decision.action = "disambiguate" =>
        /\ Len(decision.candidates) >= 2
        /\ \A i, j \in 1..Len(decision.candidates) :
              decision.candidates[i].entity_type = decision.candidates[j].entity_type

\* C3: when any index call of a request failed, the request ends as an error,
\* never as a normal Decision.
C3_IndexFailureIsError ==
    Done /\ IndexFailed => decision.action = "error"

\* C4: a query whose normalized form is empty is answered serp with reason
\* empty by every resolve implementation.
C4_EmptyQueryIsSerpEmpty ==
    Done /\ normalize_q(q) = <<>> /\ decision.action # "error" =>
        decision.action = "serp" /\ decision.reason = "empty"

\* C5: in the clean-path shortcut the registry is consulted before the index:
\* a registry key is redirected to its target without any index call; else a
\* canonical-path hit is redirected to the entity's own canonical_url with that
\* entity as match, whatever constraints the query carries; a path with
\* neither match goes on to the later rules.
C5_RegistryThenCanonicalLookup ==
    endpoint = "main" /\ Done /\ PathShaped(clean_path) =>
        LET cp == clean_path
        IN  /\ cp \in DOMAIN REDIRECTS =>
                  /\ decision.action = "redirect" /\ decision.reason = "redirect_registry"
                  /\ decision.url = REDIRECTS[cp]
                  /\ trace = <<>>
            /\ cp \notin DOMAIN REDIRECTS =>
                  /\ trace # <<>> /\ trace[1].op = "canonical_lookup"
                  /\ \A i \in 2..Len(trace) : trace[i].op # "canonical_lookup"
                  /\ decision.reason # "redirect_registry"
                  /\ trace[1].ok /\ trace[1].hit =>
                        /\ Len(trace) = 1
                        /\ decision.action = "redirect" /\ decision.reason = "clean_url"
                        /\ decision.url = resp.hits[1].source.canonical_url
                        /\ decision.url = cp
                        /\ decision.match.id = resp.hits[1].source.id
                        /\ decision.match.canonical_url = decision.url
                  /\ ~(trace[1].ok /\ trace[1].hit) =>
                        /\ decision.reason # "clean_url"
                        /\ parsed # NotParsed

C5_Witness ==
    /\ decision.reason = "clean_url" /\ is_constraint_heavy(q)
    /\ decision.url = clean_path

\* C6: the clean-path shortcut is attempted only for a path-shaped raw query;
\* a raw query without "/" causes no canonical-path lookup and never ends with
\* reason redirect_registry or clean_url.
C6_ShortcutOnlyForPaths ==
    endpoint = "main" /\ ~Contains(q, "/") =>
        /\ ~Called("canonical_lookup")
        /\ decision.reason \notin {"redirect_registry", "clean_url"}

ConstraintReasons ==
    {"constraint_heavy", "constraint_heavy_same_name", "constraint_heavy_city_scoped_listing",
     "constraint_heavy_listing"}

\* C7: builder-intent routing comes before constraint-heavy routing: once the
\* builder entity and the base location are resolved the result is
\* redirect/builder_intent_listing, also for a constraint-heavy query; a
\* constraint_heavy* result for a query with a builder hint comes only after
\* the builder search, and only when builder or base location did not resolve.
C7_BuilderBeforeConstraint ==
    endpoint = "main" /\ Done =>
        /\ builder_ent # NoEnt /\ base_ent # NoEnt =>
              decision.action = "redirect" /\ decision.reason = "builder_intent_listing"
        /\ decision.reason \in ConstraintReasons /\ Truthy(parsed.builder_hint) =>
              /\ \E i \in 1..Len(trace) :
                    /\ trace[i].op = "builder_search"
                    /\ \A j \in 1..Len(trace) : trace[j].op = "constraint_search" => i < j
              /\ builder_ent = NoEnt \/ base_ent = NoEnt

C7_Witness ==
    /\ decision.reason = "builder_intent_listing" /\ is_constraint_heavy(q)
    /\ builder_ent # NoEnt /\ base_ent # NoEnt

\* C8: a Decision with reason builder_intent_listing is a redirect whose url is
\* the listing URL of the resolved base location (its canonical_url, then the
\* segment rent when the parsed intent is rent and buy otherwise, then the
\* other filters) with builder_id=<id of the resolved builder> attached
\* exactly once, as the last parameter.
C8_BuilderListingUrl ==
    decision.reason = "builder_intent_listing" =>
        LET seg == IF parsed.intent = "rent" THEN "rent" ELSE "buy"
            listing == RStripSlash(base_ent.canonical_url) \o <<"/", seg>>
            tail == <<"builder_id", "=", builder_ent.id>>
            rest == SubSeq(decision.url, Len(listing) + 1, Len(decision.url) - Len(tail))
        IN  /\ decision.action = "redirect"
            /\ decision.match = base_ent
            /\ builder_ent # NoEnt
            /\ StartsWith(decision.url, listing)
            /\ EndsWith(decision.url, tail)
            /\ Count(decision.url, "builder_id") = 1
            /\ Count(decision.url, "?") = 1
            /\ rest[1] = "?"
            /\ Len(rest) > 1 => rest[Len(rest)] = "&"
            /\ (Len(rest) > 1) = (JoinParams(ListingParams(parsed)) # <<>>)
            /\ Len(rest) > 1 => SubSeq(rest, 2, Len(rest) - 1) = JoinParams(ListingParams(parsed))

C8_Witness ==
    /\ decision.reason = "builder_intent_listing"
    /\ Contains(decision.url, "&")
    /\ EndsWith(decision.url, <<"builder_id", "=", "builder_dlf">>)

\* C9 as stated: builder_intent_listing is returned only when the parse has a
\* builder hint and a location phrase, the builder resolved, and the base
\* entity was resolved from the location phrase with type city, micromarket
\* or locality; without a location phrase it is never returned.
C9_BuilderListingNeedsLocationPhrase ==
    decision.reason = "builder_intent_listing" =>
        /\ Truthy(parsed.builder_hint) /\ Truthy(LocationQ(parsed))
        /\ builder_ent # NoEnt
        /\ decision.match = base_ent
        /\ LastCall.op = "builder_location_search"
        /\ base_ent.entity_type \in {"city", "micromarket", "locality"}

\* C9 as amended: builder_intent_listing is returned only when the parse has a
\* builder hint and the builder resolved, and the base entity is either a
\* location-like entity found by the search for the location phrase or, when
\* no base was resolved that way and city_id is supplied, the city entity
\* whose id is city_id; with neither a location phrase nor a city_id it is
\* never returned.
C9_BuilderListingBase ==
    decision.reason = "builder_intent_listing" =>
        /\ Truthy(parsed.builder_hint)
        /\ builder_ent # NoEnt /\ builder_ent.entity_type = "builder"
        /\ base_ent # NoEnt /\ decision.match = base_ent
        /\ Called("builder_search")
        /\ \/ /\ Truthy(LocationQ(parsed))
              /\ LastCall.op = "builder_location_search"
              /\ base_ent.entity_type \in
                    {"city", "micromarket", "locality", "listing_page", "locality_overview"}
              /\ \E i \in 1..Len(resp.hits) : resp.hits[i].source.id = base_ent.id
           \/ /\ Truthy(city_id)
              /\ LastCall.op = "builder_city_search"
              /\ base_ent.entity_type = "city" /\ <<base_ent.id>> = city_id
        /\ Truthy(LocationQ(parsed)) \/ Truthy(city_id)

C9_Witness ==
    /\ decision.reason = "builder_intent_listing"
    /\ ~Truthy(LocationQ(parsed))
    /\ LastCall.op = "builder_city_search"

SetMin(S) == CHOOSE k \in S : \A m \in S : k <= m

\* C10: with page intent rate_page or locality_overview and a location_query,
\* the type-restricted search is issued, and when it returns at least one
\* candidate (exact normalized-name matches preferred) the request ends
\* there: with city_id and a candidate of that city, a redirect to the first
\* such candidate; else without city_id and candidates of more than one
\* city, disambiguate/page_intent_same_name; otherwise a redirect to the
\* best-ranked candidate; never serp, and never disambiguate with a city_id.
C10_PageIntentRouting ==
    /\ Called("page_intent_search") =>
          parsed.page_intent \in {"rate_page", "locality_overview"} /\ Truthy(parsed.location_query)
    /\ /\ endpoint = "main" /\ Done /\ parsed # NotParsed
       /\ parsed.page_intent \in {"rate_page", "locality_overview"} /\ Truthy(parsed.location_query)
       => Called("page_intent_search")
    /\ \A i \in 1..Len(trace) :
          trace[i].op = "page_intent_search" /\ trace[i].ok /\ trace[i].hit =>
              LET ents == Entities(resp.hits)
                  exact == {k \in 1..Len(ents) :
                               normalize_q(ents[k].name) = normalize_q(parsed.location_query)}
                  cand == IF exact # {} THEN exact ELSE 1..Len(ents)
                  inCity == {k \in cand : ents[k].city_id = city_id}
                  cities == {ents[k].city_id : k \in cand} \ {<<>>}
                  redirectTo(e) == /\ decision.action = "redirect"
                                   /\ decision.match = e
                                   /\ decision.url = e.canonical_url
              IN  /\ i = Len(trace) /\ Done
                  /\ resp.hits # <<>>
                  /\ \A k \in 1..Len(ents) : ents[k].entity_type = parsed.page_intent
                  /\ decision.action # "serp"
                  /\ Truthy(city_id) => decision.action # "disambiguate"
                  /\ IF Truthy(city_id) /\ inCity # {}
                     THEN redirectTo(ents[SetMin(inCity)])
                     ELSE IF ~Truthy(city_id) /\ Cardinality(cities) > 1
                     THEN /\ decision.action = "disambiguate"
                          /\ decision.reason = "page_intent_same_name"
                          /\ Len(decision.candidates) >= 2
                          /\ \A k \in 1..Len(decision.candidates) :
                                decision.candidates[k].id \in {ents[m].id : m \in cand}
                     ELSE redirectTo(ents[SetMin(cand)])

C10_Witness ==
    /\ decision.reason = "page_intent_city_scoped"
    /\ decision.match.id # resp.hits[1].source.id

EarlierReasons ==
    {"redirect_registry", "clean_url", "page_intent_city_scoped", "page_intent_same_name",
     "page_intent_confident_redirect", "builder_intent_listing"}

\* positions of the hits that constraint-heavy routing may use as location: the
\* location-type hits named exactly like the location phrase, else all location-type hits
UsableLocations ==
    LET locs == {i \in 1..Len(resp.hits) : resp.hits[i].source.entity_type \in LocationTypes}
        named == {i \in locs : normalize_q(resp.hits[i].source.name) = normalize_q(LocationQ(parsed))}
    IN  IF named # {} THEN named ELSE locs

\* C11: when the classifier is true and no earlier rule decided (and the index
\* answered), resolve ends in constraint-heavy routing: disambiguate /
\* constraint_heavy_same_name for same-name locations of several cities without city_id,
\* redirect / constraint_heavy_city_scoped_listing for exactly one candidate in
\* the given city, redirect / constraint_heavy_listing for exactly one candidate
\* overall, else serp / constraint_heavy with a url built from the raw query;
\* the default entity search is never issued.
C11_ConstraintHeavyRouting ==
    /\ endpoint = "main" /\ Done /\ parsed # NotParsed /\ HasConstraintField(parsed)
    /\ decision.action # "error" /\ decision.reason \notin EarlierReasons
    =>
    LET cands == IF Called("constraint_search") THEN UsableLocations ELSE {}
        cities == {resp.hits[i].source.city_id : i \in cands} \ {<<>>}
        scoped == {i \in cands : resp.hits[i].source.city_id = city_id}
    IN  /\ ~Called("default_search")
        /\ decision.reason \in ConstraintReasons
        /\ IF ~Truthy(city_id) /\ Cardinality(cands) > 1 /\ Cardinality(cities) > 1
           THEN /\ decision.action = "disambiguate" /\ decision.reason = "constraint_heavy_same_name"
                /\ {decision.candidates[k].id : k \in 1..Len(decision.candidates)}
                      = {resp.hits[i].source.id : i \in cands}
                /\ \A k, l \in 1..Len(decision.candidates) :
                      normalize_q(decision.candidates[k].name) = normalize_q(decision.candidates[l].name)
           ELSE IF Truthy(city_id) /\ Cardinality(scoped) = 1
           THEN /\ decision.action = "redirect"
                /\ decision.reason = "constraint_heavy_city_scoped_listing"
                /\ \A i \in scoped : decision.match.id = resp.hits[i].source.id
                /\ decision.url = build_listing_url(decision.match, parsed)
           ELSE IF Cardinality(cands) = 1
           THEN /\ decision.action = "redirect" /\ decision.reason = "constraint_heavy_listing"
                /\ \A i \in cands : decision.match.id = resp.hits[i].source.id
                /\ decision.url = build_listing_url(decision.match, parsed)
           ELSE /\ decision.action = "serp" /\ decision.reason = "constraint_heavy"
                /\ decision.url = build_serp_url(q, city_id, NoneStr, context_url)

\* the top hit of the default search shares its normalized name with another
\* hit of the same entity_type that lies in a different city
SameNameCollision ==
    \E i \in 2..Len(resp.hits) :
        /\ normalize_q(resp.hits[i].source.name) = normalize_q(resp.hits[1].source.name)
        /\ resp.hits[i].source.entity_type = resp.hits[1].source.entity_type
        /\ resp.hits[i].source.city_id # resp.hits[1].source.city_id

C13_ScoreGapRedirect ==
    /\ endpoint = "main" /\ Done /\ Called("default_search") /\ decision.action # "error"
    /\ resp.hits # <<>> /\ ~SameNameCollision
    =>
    LET top_score == resp.hits[1].score
        second_score == IF Len(resp.hits) > 1 THEN resp.hits[2].score ELSE 0
    IN  IF /\ top_score >= MIN_REDIRECT_SCORE
           /\ (top_score - second_score) * 100 >= MIN_REDIRECT_GAP * Max({top_score, 0})
        THEN /\ decision.action = "redirect" /\ decision.reason = "confident_redirect"
             /\ decision.match.id = resp.hits[1].source.id
             /\ decision.url = resp.hits[1].source.canonical_url
        ELSE decision.action = "serp" /\ decision.reason = "ambiguous"

C13_Witness ==
    /\ endpoint = "main" /\ Done /\ decision.reason = "ambiguous"
    /\ resp.hits[1].score >= MIN_REDIRECT_SCORE

\* the calls of main.parse_query, directly or through the classifier
MainParses == {i \in 1..Len(results) : results[i].op \in {"main_parse", "is_constraint_heavy"}}

\* the nine fields the classifier is said to look at, or page intent listing
ClassifierSignal(p) ==
    \/ p.intent # "None"
    \/ p.bhk # NoneInt
    \/ p.property_type # "None"
    \/ p.status # "None"
    \/ p.min_price # NoneInt
    \/ p.max_price # NoneInt
    \/ p.min_rent # NoneInt
    \/ p.max_rent # NoneInt
    \/ Truthy(p.builder_hint)
    \/ p.page_intent = "listing"

\* C14: the constraint classifier answers true if and only if one of intent,
\* bhk, property type, status, the four budget bounds or the builder hint is
\* set in the parse or the page intent is listing, so a query whose only
\* signal is a builder hint is constraint-heavy; the classifier of the second
\* parser answers true if and only if one of the fields of its parse is set.
C14_ClassifierFields ==
    \A i \in 1..Len(results) :
        /\ results[i].op = "is_constraint_heavy"
           => (results[i].heavy = 1 <=> ClassifierSignal(results[i].parsed))
        /\ results[i].op = "v1_parse"
           => (results[i].heavy = 1 <=>
                  \/ results[i].parsed.intent # "None"
                  \/ results[i].parsed.bhk # NoneInt
                  \/ results[i].parsed.property_type # "None"
                  \/ results[i].parsed.budget.min # NoneInt
                  \/ results[i].parsed.budget.max # NoneInt)

\* one of bhk, status, property type, a budget bound, intent or builder hint is present
ListingSignal(p) ==
    \/ p.bhk # NoneInt
    \/ p.status # "None"
    \/ p.property_type # "None"
    \/ p.min_price # NoneInt
    \/ p.max_price # NoneInt
    \/ p.min_rent # NoneInt
    \/ p.max_rent # NoneInt
    \/ p.intent # "None"
    \/ Truthy(p.builder_hint)

\* C15: rate vocabulary gives page intent rate_page, otherwise overview
\* vocabulary gives locality_overview, and neither is replaced by listing;
\* without such vocabulary the page intent is listing exactly when one of bhk,
\* status, property type, a budget bound, intent or builder hint is present,
\* and unset otherwise.
C15_ListingFallback ==
    \A i \in MainParses :
        /\ HasWord(results[i].parsed.q, RateWords) => results[i].parsed.page_intent = "rate_page"
        /\ ~HasWord(results[i].parsed.q, RateWords) /\ HasWord(results[i].parsed.q, OverviewWords)
           => results[i].parsed.page_intent = "locality_overview"
        /\ ~HasWord(results[i].parsed.q, RateWords \cup OverviewWords)
           => results[i].parsed.page_intent =
                  (IF ListingSignal(results[i].parsed) THEN "listing" ELSE "None")

\* the query is in rent context: rent intent, or "pm" / "per month" vocabulary
InRentContext(p) ==
    \/ p.intent = "rent"
    \/ HasWord(p.q, {"pm", "permonth"})
    \/ \E k \in 1..Len(p.q) : TwoWords(p.q, k, "per", {"month"}) # 0

\* one of the three budget patterns matches somewhere in the text
BudgetPatternFound(s) ==
    \E k \in 1..Len(s) :
        \/ BetweenAt(s, k) # <<>>
        \/ BoundAt(s, k, UnderSingles, UnderPairs) # <<>>
        \/ BoundAt(s, k, AboveSingles, AbovePairs) # <<>>

PriceSet(p) == p.min_price # NoneInt \/ p.max_price # NoneInt

RentSet(p) == p.min_rent # NoneInt \/ p.max_rent # NoneInt

\* C16: a parse never has both a price bound and a rent bound; in rent context
\* (rent intent, or "per month" / "pm") the bounds found by the budget patterns
\* are rent bounds and no price bound is set, otherwise they are price bounds
\* and no rent bound is set.
C16_PriceOrRent ==
    \A i \in MainParses :
        /\ ~(PriceSet(results[i].parsed) /\ RentSet(results[i].parsed))
        /\ InRentContext(results[i].parsed)
           => /\ ~PriceSet(results[i].parsed)
              /\ BudgetPatternFound(results[i].parsed.q) <=> RentSet(results[i].parsed)
        /\ ~InRentContext(results[i].parsed)
           => /\ ~RentSet(results[i].parsed)
              /\ BudgetPatternFound(results[i].parsed.q) <=> PriceSet(results[i].parsed)

\* a rent bound that rests on "pm" alone, and a price bound in another parse
C16_Witness ==
    /\ Done
    /\ \E i \in MainParses :
           /\ results[i].parsed.min_rent # NoneInt
           /\ results[i].parsed.intent # "rent"
    /\ \E j \in MainParses : PriceSet(results[j].parsed)

\* the amounts of the leftmost match of each budget pattern, <<>> without a match
FirstBetween(s) ==
    LET k == FirstMatch({j \in 1..Len(s) : BetweenAt(s, j) # <<>>})
    IN  IF k = 0 THEN <<>> ELSE BetweenAt(s, k)

FirstUnder(s) ==
    LET k == FirstMatch({j \in 1..Len(s) : BoundAt(s, j, UnderSingles, UnderPairs) # <<>>})
    IN  IF k = 0 THEN <<>> ELSE BoundAt(s, k, UnderSingles, UnderPairs)

FirstAbove(s) ==
    LET k == FirstMatch({j \in 1..Len(s) : BoundAt(s, j, AboveSingles, AbovePairs) # <<>>})
    IN  IF k = 0 THEN <<>> ELSE BoundAt(s, k, AboveSingles, AbovePairs)

\* k = x1,000, l / lac / lakh = x100,000, cr / crore = x10,000,000, of an amount in tenths
ExactRupees(num10, unit) ==
    IF unit = "k" THEN num10 * 100
    ELSE IF unit \in {"l", "lac", "lakh"} THEN num10 * 10000
    ELSE num10 * 1000000

\* the bound is set from amount a, and scaled by the unit when a has one
SetFrom(bound, a) == bound # NoneInt /\ (a.unit # "" => bound = ExactRupees(a.num10, a.unit))

\* the minimum and the maximum of the pair the parse uses
LowBound(p) == IF InRentContext(p) THEN p.min_rent ELSE p.min_price

HighBound(p) == IF InRentContext(p) THEN p.max_rent ELSE p.max_price

\* C17: the budget patterns apply in the order between, under, above: a
\* "between A and B" sets both bounds, "under X" sets the maximum only while
\* none is set, "above X" the minimum only while none is set, and nothing else
\* sets a bound; an amount with a unit is scaled k = x1,000, l / lac / lakh =
\* x100,000, cr / crore = x10,000,000, so "under 50L" gives maximum 5,000,000
\* and no minimum, and "between 50L and 1cr" gives 5,000,000 and 10,000,000.
C17_BudgetPatterns ==
    \A i \in MainParses :
        LET p == results[i].parsed
            bt == FirstBetween(p.q)
            un == FirstUnder(p.q)
            ab == FirstAbove(p.q)
        IN  /\ bt # <<>> => SetFrom(LowBound(p), bt[1]) /\ SetFrom(HighBound(p), bt[2])
            /\ bt = <<>> /\ un # <<>> => SetFrom(HighBound(p), un[1])
            /\ bt = <<>> /\ ab # <<>> => SetFrom(LowBound(p), ab[1])
            /\ bt = <<>> /\ un = <<>> => HighBound(p) = NoneInt
            /\ bt = <<>> /\ ab = <<>> => LowBound(p) = NoneInt
            /\ results[i].q = <<"under", " ", "50L">>
               => p.max_price = 5000000 /\ p.min_price = NoneInt
            /\ results[i].q = <<"between", " ", "50L", " ", "and", " ", "1cr">>
               => p.min_price = 5000000 /\ p.max_price = 10000000
            /\ results[i].q = <<"above", " ", "20k", " ", "rent">>
               => p.min_rent = 20000 /\ p.max_rent = NoneInt

\* a number without unit, in tenths: lakhs up to 200, a literal rupee amount above
BareRupees(num10) == IF num10 <= 2000 THEN num10 * 10000 ELSE num10 \div 10

\* the amount without unit behind the leftmost keyword that has one, <<>> if none has
BareAfter(s, singles, pairs) ==
    LET bare(k) == AmountAt(s, KeywordEnd(s, k, singles, pairs) + 2)
        K == {k \in 1..Len(s) :
                 /\ KeywordEnd(s, k, singles, pairs) # 0
                 /\ IsSpace(At(s, KeywordEnd(s, k, singles, pairs) + 1))
                 /\ bare(k).ok /\ bare(k).unit = ""}
    IN  IF K = {} THEN <<>> ELSE <<bare(Min(K))>>

\* the last amount of the text when it is a whole number without unit, else 0
V1BareLast(ql) ==
    LET m == LastMatch({k \in 1..Len(ql) : V1AmountStart(ql, k)})
    IN  IF m # 0 /\ IsNum(At(ql, m)) /\ V1NumEnd(ql, m) = m /\ V1Unit(At(ql, SkipSp(ql, m + 1))) = ""
        THEN m ELSE 0

\* C18: a budget number without unit counts as lakhs when it is at most 200 and
\* as a literal rupee amount above 200, in the between, under and above
\* patterns of the query parser and in the budget of the second parser; so
\* "under 50" gives a maximum of 5,000,000 and "under 5000000" one of 5,000,000.
C18_BareNumberBudget ==
    \A i \in 1..Len(results) :
        /\ i \in MainParses =>
           LET p == results[i].parsed
               bt == FirstBetween(p.q)
               un == BareAfter(p.q, UnderSingles, UnderPairs)
               ab == BareAfter(p.q, AboveSingles, AbovePairs)
           IN  /\ bt # <<>> /\ bt[1].unit = "" /\ bt[2].unit = ""
                  => /\ LowBound(p) = BareRupees(bt[1].num10)
                     /\ HighBound(p) = BareRupees(bt[2].num10)
               /\ bt = <<>> /\ FirstUnder(p.q) = <<>> /\ un # <<>>
                  => HighBound(p) = BareRupees(un[1].num10)
               /\ bt = <<>> /\ FirstAbove(p.q) = <<>> /\ ab # <<>>
                  => LowBound(p) = BareRupees(ab[1].num10)
               /\ results[i].q \in {<<"under", " ", "50">>, <<"under", " ", "5000000">>}
                  => p.max_price = 5000000
        /\ results[i].op = "v1_parse" =>
           LET ql == LowerText(results[i].parsed.normalized_q)
               b == results[i].parsed.budget
           IN  V1BareLast(ql) # 0
               => {b.min, b.max} = {NoneInt, 10 * BareRupees(10 * NumVal[ql[V1BareLast(ql)]])}

\* the first integer 1-6 directly before "bhk", with or without a space, NoneInt if there is none
ClaimedBhk(s) ==
    LET K == {k \in 1..Len(s) : BhkAt(s, k) # ""}
    IN  IF K = {} THEN NoneInt ELSE NumVal[BhkAt(s, Min(K))]

\* C19: the bhk of a parse, from main.parse_query as from
\* search_parse.parse_query, is unset or an integer in 1..6; when set it is the
\* first integer 1-6 directly followed by "bhk", with or without a space, and
\* a number outside 1..6 before "bhk", such as 0 or 12, gives no bhk.
C19_BhkRange ==
    \A i \in 1..Len(results) :
        /\ results[i].parsed.bhk \in {NoneInt} \cup 1..6
        /\ results[i].parsed.bhk = ClaimedBhk(normalize_q(results[i].q))

ListingBuilt == endpoint = "build_listing_url" /\ pc = "done" /\ builder_ent = NoEnt

\* the slug of the city an entity lies in
CitySlug(entity) ==
    IF entity.city_id = <<"city_noida">> THEN "noida"
    ELSE IF entity.city_id = <<"city_pune">> THEN "pune"
    ELSE ""

\* the query string of a URL, without the "?"
QueryString(url) == SubSeq(url, Len(Before(url, {"?"})) + 2, Len(url))

\* C21: build_listing_url routes by entity type, with segment rent for the
\* rent intent and buy otherwise: a project gives
\* /{citySlug}/{segment}?project_id={id}, a builder a path ending in
\* /{segment} with ?builder_id={id}, a location-like entity
\* {canonicalUrl}/{segment}, every other type {canonicalUrl} without segment;
\* the filters follow in the query string.
C21_ListingUrlByType ==
    ListingBuilt =>
        LET segment == IF parsed.intent = "rent" THEN "rent" ELSE "buy"
            path == Before(listing_url, {"?"})
        IN  /\ base_ent.entity_type = "project"
               => /\ path = <<"/", CitySlug(base_ent), "/", segment>>
                  /\ StartsWith(QueryString(listing_url), <<"project_id", "=", base_ent.id>>)
            /\ base_ent.entity_type = "builder"
               => /\ EndsWith(path, <<"/", segment>>)
                  /\ StartsWith(QueryString(listing_url), <<"builder_id", "=", base_ent.id>>)
            /\ base_ent.entity_type \in
                   {"city", "micromarket", "locality", "listing_page", "locality_overview"}
               => path = base_ent.canonical_url \o <<"/", segment>>
            /\ base_ent.entity_type \notin
                   {"project", "builder", "city", "micromarket", "locality", "listing_page", "locality_overview"}
               => path = base_ent.canonical_url

\* the parameter names of a query string, in the order they appear
ParamKeys(qs) == SelectSeq([i \in 1..Len(qs) |-> IF At(qs, i + 1) = "=" THEN qs[i] ELSE ""],
                           LAMBDA k : k # "")

\* the filters that are set, in the order bhk, status, property_type, price or rent bounds, builder_id
FiltersSet(p, builder) ==
    (IF p.bhk # NoneInt THEN <<"bhk">> ELSE <<>>)
    \o (IF p.status # "None" THEN <<"status">> ELSE <<>>)
    \o (IF p.property_type # "None" THEN <<"property_type">> ELSE <<>>)
    \o (IF p.min_price # NoneInt THEN <<"min_price">> ELSE <<>>)
    \o (IF p.max_price # NoneInt THEN <<"max_price">> ELSE <<>>)
    \o (IF p.min_rent # NoneInt THEN <<"min_rent">> ELSE <<>>)
    \o (IF p.max_rent # NoneInt THEN <<"max_rent">> ELSE <<>>)
    \o (IF builder # NoEnt THEN <<"builder_id">> ELSE <<>>)

\* C22: the query string of a listing URL has exactly the filters that are set
\* in the parse, each once, in the order bhk, status, property_type,
\* min_price / max_price or min_rent / max_rent, builder_id; a filter that is
\* not set does not appear.
C22_FilterOrder ==
    endpoint = "build_listing_url" /\ pc = "done"
        => ParamKeys(QueryString(listing_url)) = FiltersSet(parsed, builder_ent)

\* C30: a listing URL built for a location-like entity that carries min_rent
\* or max_rent has the segment rent, and one that carries min_price or
\* max_price has the segment buy.
C30_SegmentMatchesBudget ==
    /\ endpoint = "build_listing_url" /\ pc = "done"
    /\ base_ent.entity_type \in {"city", "micromarket", "locality", "listing_page", "locality_overview"}
    => LET keys == ParamKeys(QueryString(listing_url))
           path == Before(listing_url, {"?"})
       IN  /\ (\E k \in 1..Len(keys) : keys[k] \in {"min_rent", "max_rent"})
              => EndsWith(path, <<"/", "rent">>)
           /\ (\E k \in 1..Len(keys) : keys[k] \in {"min_price", "max_price"})
              => EndsWith(path, <<"/", "buy">>)

\* C23: on every branch of both resolve handlers the Decision's
\* normalized_query is the whitespace-collapsed, lower-cased form of the query.
C23_NormalizedQuery ==
    Done /\ endpoint \in {"main", "api"} /\ decision # NoDecision
        => decision.normalized_query = normalize_q(q)

\* C25: a resolve request issues at most 3 round trips to the index, one after
\* another, on every path of the policy.
C25_AtMostThreeRoundTrips ==
    endpoint \in {"main", "api"} => Len(trace) <= 3

\* C27: over the city-filtered hits, resolve_service.resolve redirects to the
\* top hit if and only if the top score is strong (>= 5.0) and the gap to the
\* second score is meaningful (>= 0.18); it disambiguates only when the top
\* score is strong and the gap weak; whenever the top score is below the
\* strong threshold it returns serp.
C27_ServicePolicy ==
    /\ endpoint = "api" /\ Done /\ Called("service_search")
    /\ resp.ok /\ ServiceFiltered(resp.hits, city_id) # <<>>
    => LET filtered == ServiceFiltered(resp.hits, city_id)
           top == filtered[1].score
           second == IF Len(filtered) > 1 THEN filtered[2].score ELSE 0
           strong == top >= STRONG_SCORE
           gap_ok == top > 0 /\ (top - second) * 100 >= GAP_OK * top
       IN  /\ decision.action = "redirect" <=> strong /\ gap_ok
           /\ decision.action = "redirect" => decision.match = make_candidate(filtered[1])
           /\ decision.action = "disambiguate" => strong /\ ~gap_ok
           /\ ~strong => decision.action = "serp"
           /\ decision.action \in {"redirect", "disambiguate", "serp"}

\* one of intent, bhk, property_type, status and the four budget bounds is set
EightFields(p) ==
    \/ p.intent # "None"
    \/ p.bhk # NoneInt
    \/ p.property_type # "None"
    \/ p.status # "None"
    \/ p.min_price # NoneInt
    \/ p.max_price # NoneInt
    \/ p.min_rent # NoneInt
    \/ p.max_rent # NoneInt

\* C29: in a parse of main.parse_query page_intent listing implies that one of
\* intent, bhk, property_type, status, min_price, max_price, min_rent, max_rent
\* is set; so is_constraint_heavy is true exactly when one of those eight is
\* set, its page-intent disjunct changes nothing, and its verdict agrees with
\* every parse of the same raw query, the one resolve computes included.
C29_ListingImpliesField ==
    /\ \A i \in MainParses :
           results[i].parsed.page_intent = "listing" => EightFields(results[i].parsed)
    /\ \A i \in 1..Len(results) :
           results[i].op = "is_constraint_heavy"
           => /\ results[i].heavy = 1 <=> EightFields(results[i].parsed)
              /\ \A j \in MainParses :
                     results[j].q = results[i].q
                     => (results[i].heavy = 1 <=> EightFields(results[j].parsed))

\* the classifier said yes on a listing parse, and the parse endpoint saw the same query
C29_Witness ==
    /\ Done
    /\ \E i, j \in 1..Len(results) :
           /\ results[i].op = "is_constraint_heavy" /\ results[i].heavy = 1
           /\ results[i].parsed.page_intent = "listing"
           /\ results[j].op = "main_parse" /\ results[j].q = results[i].q

\* the log the last call of load_recent_queries read
LogRead == files[IF recents.log_path # NoneStr THEN recents.log_path ELSE SEARCH_LOG_PATH]

\* the key of a returned entry: lower-cased normalized_query and city_id
EntryKey(e) == <<LowerText(e.normalized_query), e.city_id>>

\* entry e was built from line i of the log read
BuiltFrom(e, i) ==
    /\ LogRead[i].kind = "event"
    /\ LogRead[i].timestamp = e.timestamp
    /\ KeyOf(LogRead[i]) = EntryKey(e)
    /\ NormOf(LogRead[i]) = e.normalized_query /\ e.normalized_query # <<>>

C24_CityWitness ==
    /\ recents # <<>>
    /\ recents.city_id # NoneStr
    /\ recents.entries # <<>>
    /\ \E i \in 1..Len(LogRead) :
          LogRead[i].kind = "event" /\ NormOf(LogRead[i]) # <<>> /\ KeyOf(LogRead[i])[2] # recents.city_id

\* the line written last, over all the logs
LastLine ==
    LET at == CHOOSE pi \in {<<p, i>> : p \in LogPaths, i \in 1..MaxLines + 1} :
                  pi[2] <= Len(files[pi[1]]) /\ files[pi[1]][pi[2]].timestamp = Now - 1
    IN  files[at[1]][at[2]]

\* C28: after a search event with a non-empty query is appended by
\* main.log_search or store.log_search_event, the next load_recent_queries
\* call with the default path and a matching or absent city_id returns an
\* entry for that event as its newest entry.
C28_ReaderSeesAppendedEvent ==
    ( /\ recents # <<>>
      /\ recents.log_path = NoneStr
      /\ Now > 1
      /\ LastLine.kind = "event"
      /\ NormOf(LastLine) # <<>>
      /\ (recents.city_id = NoneStr \/ recents.city_id = KeyOf(LastLine)[2]) )
    => /\ recents.entries # <<>>
       /\ recents.entries[1].timestamp = LastLine.timestamp
       /\ recents.entries[1].normalized_query = NormOf(LastLine)

\* C26: handling a resolve request writes no process-shared state: no global
\* (the redirect registry, the index client of core.es) is assigned from
\* within a request, and all requests use one and the same index client.
C26_NoSharedWrites ==
    /\ [][core_es' = core_es /\ REDIRECTS' = REDIRECTS]_vars
    /\ [](\A a, b \in DOMAIN requests :
             (requests[a].es # NoneInt /\ requests[b].es # NoneInt) => requests[a].es = requests[b].es)

====
